---- MODULE Spec2Model ----
(***************************************************************************)
(* A model of the GitHub agent of 14-github-agent: the repository client   *)
(* adapter (github_client.py), the tool-function layer (github_agent.py)   *)
(* and the LLM tool wrappers of GithubAgent (agent.py), run against a      *)
(* model of the host they call through PyGithub.                           *)
(*                                                                         *)
(* Python values are tagged records: None, str (a sequence of characters), *)
(* a formatted message (the f-string's template and the values it embeds), *)
(* bool and list.  File contents are sequences of code points on the       *)
(* Python side and sequences of bytes on the host side.                    *)
(***************************************************************************)
EXTENDS Integers, Sequences, FiniteSets, TLC

\* ------------------------------------------------------------------ bounds

\* Most path separators put before and after a path handed to an operation.
MaxSlashes == 1
\* Longest file content, in code points.
MaxContentLen == 1

\* ----------------------------------------------------------- Python values

None == [py |-> "None"]
Str(s) == [py |-> "str", s |-> s]
PyBool(b) == [py |-> "bool", b |-> b]
PyList(items) == [py |-> "list", items |-> items]

\* Python truthiness, as used by `if not x` and `x if x else y`.
IsTruthy(v) ==
  CASE v.py = "None" -> FALSE
    [] v.py = "str" -> v.s # <<>>
    [] v.py = "bool" -> v.b
    [] v.py = "list" -> v.items # <<>>
    [] OTHER -> TRUE

\* str.strip('/'): every leading and every trailing separator is removed.
RECURSIVE LStrip(_)
LStrip(s) == IF s # <<>> /\ Head(s) = "/" THEN LStrip(Tail(s)) ELSE s

RECURSIVE RStrip(_)
RStrip(s) ==
  IF s # <<>> /\ s[Len(s)] = "/" THEN RStrip(SubSeq(s, 1, Len(s) - 1)) ELSE s

Strip(s) == RStrip(LStrip(s))

\* A variant: str.encode('latin-1') of one code point. Content written with it
\* does not read back (C6 fails under it).
EncodeLatin1CodePoint(cp) == <<cp % 256>>

\* str.encode('utf-8') of one code point (one- and two-byte forms).
EncodeCodePoint(cp) ==
  IF cp < 128 THEN <<cp>> ELSE <<192 + (cp \div 64), 128 + (cp % 64)>>

RECURSIVE EncodeUtf8(_)
EncodeUtf8(text) ==
  IF text = <<>> THEN <<>>
  ELSE EncodeCodePoint(Head(text)) \o EncodeUtf8(Tail(text))

\* bytes.decode('utf-8'): ok is FALSE where Python raises UnicodeDecodeError.
RECURSIVE DecodeUtf8(_)
DecodeUtf8(bytes) ==
  IF bytes = <<>> THEN [ok |-> TRUE, text |-> <<>>]
  ELSE IF bytes[1] < 128
    THEN LET rest == DecodeUtf8(Tail(bytes))
         IN [ok |-> rest.ok, text |-> <<bytes[1]>> \o rest.text]
  ELSE IF /\ bytes[1] >= 194 /\ bytes[1] <= 223 /\ Len(bytes) >= 2
          /\ bytes[2] >= 128 /\ bytes[2] <= 191
    THEN LET rest == DecodeUtf8(SubSeq(bytes, 3, Len(bytes)))
         IN [ok |-> rest.ok,
             text |-> <<(bytes[1] - 192) * 64 + (bytes[2] - 128)>> \o rest.text]
  ELSE [ok |-> FALSE, text |-> <<>>]

\* ---------------------------------------------------------------- the host

\* The repository's one branch, its default branch; callers also name a
\* branch the repository does not have.
BranchMain == <<"main">>
BranchDev == <<"dev">>
Branches == {BranchMain}

\* The paths the operations are called with: a core path with up to
\* MaxSlashes separators before and after it; None where a caller passes it.
Slashes(n) == [i \in 1..n |-> "/"]
Cores == {<<>>, <<"d">>, <<"d", "/", "f">>}
PathStrs ==
  {Str(Slashes(i) \o c \o Slashes(j)) : i \in 0..MaxSlashes, j \in 0..MaxSlashes, c \in Cores}
HostPaths == {Strip(p.s) : p \in PathStrs} \ {<<>>}

\* File contents as Python text; the one code point used needs two bytes.
CodePoints == {233}
Texts == UNION {[1..n -> CodePoints] : n \in 0..MaxContentLen}

Absent == [t |-> "absent"]
File(data) == [t |-> "file", data |-> data]

\* The blob SHA: a hash of "blob <len>\0<data>", modelled by its preimage
\* (content-addressed and collision-free).
BlobSha(data) == <<Len(data)>> \o data

\* q lies under directory p (p = <<>> is the root).
Under(p, q) ==
  IF p = <<>> THEN q # <<>>
  ELSE Len(q) > Len(p) + 1 /\ SubSeq(q, 1, Len(p)) = p /\ q[Len(p) + 1] = "/"

IsFile(h, b, p) == p \in HostPaths /\ h[<<b, p>>].t = "file"
IsDir(h, b, p) == p = <<>> \/ \E q \in HostPaths : IsFile(h, b, q) /\ Under(p, q)

\* The directories on the way to p.
Ancestors(p) == {SubSeq(p, 1, i - 1) : i \in {k \in 1..Len(p) : p[k] = "/"}}

\* The first path segment of s.
RECURSIVE FirstSegment(_)
FirstSegment(s) ==
  IF s = <<>> \/ Head(s) = "/" THEN <<>> ELSE <<Head(s)>> \o FirstSegment(Tail(s))

\* The names of the entries of directory p on branch b.
EntryNames(h, b, p) ==
  {FirstSegment(SubSeq(q, IF p = <<>> THEN 1 ELSE Len(p) + 2, Len(q))) :
     q \in {x \in HostPaths : IsFile(h, b, x) /\ Under(p, x)}}

RECURSIVE SetToSeq(_)
SetToSeq(S) ==
  IF S = {} THEN <<>> ELSE LET x == CHOOSE y \in S : TRUE IN <<x>> \o SetToSeq(S \ {x})

\* What a host call gives: a value and the host's new state, or an exception.
HostOk(val, h) == [exc |-> "none", status |-> 200, val |-> val, host |-> h]
HostErr(exc, status, h) == [exc |-> exc, status |-> status, val |-> None, host |-> h]

\* A failure of the host or of the transport, whatever the request.
Faults == {"none", "rate_limit", "server_error", "network"}
FaultErr(fault, h) ==
  CASE fault = "rate_limit" -> HostErr("RateLimitExceededException", 403, h)
    [] fault = "server_error" -> HostErr("GithubException", 500, h)
    [] OTHER -> HostErr("ConnectionError", 0, h)

\* The exception classes of PyGithub: every one is an Exception, and the three
\* specific ones are GithubExceptions.
IsGithubException(exc) ==
  exc \in {"GithubException", "UnknownObjectException", "RateLimitExceededException",
           "BadCredentialsException"}

\* Repository.get_contents(path, ref): a ContentFile for a file, a list of
\* ContentFiles for a directory, 404 otherwise.
HostGetContents(h, path, ref, fault) ==
  IF fault # "none" THEN FaultErr(fault, h)
  ELSE IF ref \notin Branches THEN HostErr("UnknownObjectException", 404, h)
  ELSE IF IsFile(h, ref, path)
    THEN HostOk([t |-> "file", type |-> "file", data |-> h[<<ref, path>>].data,
                 sha |-> Str(BlobSha(h[<<ref, path>>].data))], h)
  ELSE IF IsDir(h, ref, path)
    THEN HostOk([t |-> "list", names |-> SetToSeq(EntryNames(h, ref, path))], h)
  ELSE HostErr("UnknownObjectException", 404, h)

\* Repository.create_file(path, message, content, branch): 422 when the path is
\* taken (a file, a directory, or below a file) or is no file path.
HostCreateFile(h, path, data, branch, fault) ==
  IF fault # "none" THEN FaultErr(fault, h)
  ELSE IF branch \notin Branches THEN HostErr("UnknownObjectException", 404, h)
  ELSE IF \/ path \notin HostPaths
          \/ IsFile(h, branch, path)
          \/ IsDir(h, branch, path)
          \/ \E a \in Ancestors(path) : IsFile(h, branch, a)
    THEN HostErr("GithubException", 422, h)
  ELSE HostOk(None, [h EXCEPT ![<<branch, path>>] = File(data)])

\* Repository.update_file(path, message, content, sha, branch): 404 when there is
\* no such file, 409 when sha is not the file's current blob SHA.
HostUpdateFile(h, path, data, sha, branch, fault) ==
  IF fault # "none" THEN FaultErr(fault, h)
  ELSE IF branch \notin Branches \/ ~IsFile(h, branch, path)
    THEN HostErr("UnknownObjectException", 404, h)
  ELSE IF sha # Str(BlobSha(h[<<branch, path>>].data))
    THEN HostErr("GithubException", 409, h)
  ELSE HostOk(None, [h EXCEPT ![<<branch, path>>] = File(data)])

\* Repository.delete_file(path, message, sha, branch): as update_file.
HostDeleteFile(h, path, sha, branch, fault) ==
  IF fault # "none" THEN FaultErr(fault, h)
  ELSE IF branch \notin Branches \/ ~IsFile(h, branch, path)
    THEN HostErr("UnknownObjectException", 404, h)
  ELSE IF sha # Str(BlobSha(h[<<branch, path>>].data))
    THEN HostErr("GithubException", 409, h)
  ELSE HostOk(None, [h EXCEPT ![<<branch, path>>] = Absent])

\* ------------------------------------------------- github_client.py (adapter)

\* What an adapter call gives: the (value, error) pair it returns, or the
\* exception that leaves it; the host calls it made; the host's new state.
AdapterRet(value, error, calls, h) ==
  [raised |-> "none", value |-> value, error |-> error, calls |-> calls, host |-> h]
AdapterRaise(exc, calls, h) ==
  [raised |-> exc, value |-> None, error |-> None, calls |-> calls, host |-> h]

\* The error strings, each by its template and the values it embeds.
MsgNotInitialized == [py |-> "msg", tmpl |-> "Repository object is not initialized."]
MsgPathEmpty == [py |-> "msg", tmpl |-> "File path cannot be empty."]
MsgCommitEmpty == [py |-> "msg", tmpl |-> "Commit message cannot be empty."]
MsgShaRequired(what) ==
  [py |-> "msg", tmpl |-> "File SHA (blob SHA) is required", what |-> what]
MsgRateLimit ==
  [py |-> "msg", tmpl |-> "GitHub API rate limit exceeded. Please try again later."]
MsgNotFound(what, path, ref) ==
  [py |-> "msg", tmpl |-> "not found in repository on branch", what |-> what,
   path |-> path, ref |-> ref]
MsgIsDirectory(path) ==
  [py |-> "msg", tmpl |-> "is a directory, not a file.", path |-> path]
MsgGithubError(doing, path, status) ==
  [py |-> "msg", tmpl |-> "A GitHub API error occurred while", doing |-> doing,
   path |-> path, status |-> status]
MsgUnexpected(doing, path, exc) ==
  [py |-> "msg", tmpl |-> "An unexpected error occurred while", doing |-> doing,
   path |-> path, exc |-> exc]

\* `normalized_path if normalized_path else '/'` of the listing's messages.
PathOrSlash(np) == IF np # <<>> THEN np ELSE <<"/">>

\* A variant of RefToUse whose default is another branch than the repository's
\* default branch (C24 fails under it).
RefToUseOther(repo, branch) == IF IsTruthy(branch) THEN branch.s ELSE <<"dev">>

\* `branch if branch else repository_object.default_branch`
RefToUse(repo, branch) == IF IsTruthy(branch) THEN branch.s ELSE repo.default_branch

GetContentsCall(np, ref) == [api |-> "get_contents", path |-> np, ref |-> ref]

list_repository_contents(repo, h, path, branch, fault) ==
  IF ~IsTruthy(repo) THEN AdapterRet(PyList(<<>>), MsgNotInitialized, <<>>, h)
  ELSE IF path.py # "str"
    \* path.strip raises AttributeError; its handler (line 55) reads
    \* normalized_path, which was never bound: UnboundLocalError leaves the call.
    THEN AdapterRaise("UnboundLocalError", <<>>, h)
  ELSE
    LET np == Strip(path.s)
        ref == RefToUse(repo, branch)
        r == HostGetContents(h, np, ref, fault)
        calls == <<GetContentsCall(np, ref)>>
    IN CASE r.exc = "none" /\ r.val.t = "list" ->
              AdapterRet(PyList(r.val.names), None, calls, h)
         \* a ContentFile is not iterable: TypeError, caught at line 54
         [] r.exc = "none" /\ r.val.t # "list" ->
              AdapterRet(PyList(<<>>),
                         MsgUnexpected("listing", PathOrSlash(np), "TypeError"), calls, h)
         [] r.exc = "UnknownObjectException" ->
              AdapterRet(PyList(<<>>), MsgNotFound("Path", PathOrSlash(np), ref), calls, h)
         [] r.exc = "RateLimitExceededException" ->
              AdapterRet(PyList(<<>>), MsgRateLimit, calls, h)
         [] r.exc # "none" /\ IsGithubException(r.exc)
              /\ r.exc \notin {"UnknownObjectException", "RateLimitExceededException"} ->
              AdapterRet(PyList(<<>>),
                         MsgGithubError("listing", PathOrSlash(np), r.status), calls, h)
         [] OTHER ->
              AdapterRet(PyList(<<>>),
                         MsgUnexpected("listing", PathOrSlash(np), r.exc), calls, h)

read_repository_file(repo, h, file_path, branch, fault) ==
  IF ~IsTruthy(repo) THEN AdapterRet(None, MsgNotInitialized, <<>>, h)
  ELSE IF ~IsTruthy(file_path) THEN AdapterRet(None, MsgPathEmpty, <<>>, h)
  ELSE
    LET np == Strip(file_path.s)
        ref == RefToUse(repo, branch)
        r == HostGetContents(h, np, ref, fault)
        calls == <<GetContentsCall(np, ref)>>
    IN CASE r.exc = "none" /\ r.val.t = "list" ->
              \* a list has no attribute `type`: AttributeError, caught at line 109
              AdapterRet(None, MsgUnexpected("reading", np, "AttributeError"), calls, h)
         [] r.exc = "none" /\ r.val.t = "file" ->
              IF r.val.type = "dir" THEN AdapterRet(None, MsgIsDirectory(np), calls, h)
              ELSE LET d == DecodeUtf8(r.val.data)
                   IN IF d.ok THEN AdapterRet(Str(d.text), None, calls, h)
                      ELSE AdapterRet(None, MsgUnexpected("reading", np, "UnicodeDecodeError"),
                                      calls, h)
         [] r.exc = "UnknownObjectException" ->
              AdapterRet(None, MsgNotFound("File", np, ref), calls, h)
         [] r.exc = "RateLimitExceededException" -> AdapterRet(None, MsgRateLimit, calls, h)
         [] r.exc # "none" /\ IsGithubException(r.exc)
              /\ r.exc \notin {"UnknownObjectException", "RateLimitExceededException"} ->
              AdapterRet(None, MsgGithubError("reading", np, r.status), calls, h)
         [] OTHER -> AdapterRet(None, MsgUnexpected("reading", np, r.exc), calls, h)

\* The two handlers the mutating operations share (lines 156-165, 211-219, 262-270).
MutationResult(doing, np, r, calls) ==
  IF r.exc = "none" THEN AdapterRet(PyBool(TRUE), None, calls, r.host)
  ELSE IF IsGithubException(r.exc)
    THEN AdapterRet(PyBool(FALSE), MsgGithubError(doing, np, r.status), calls, r.host)
  ELSE AdapterRet(PyBool(FALSE), MsgUnexpected(doing, np, r.exc), calls, r.host)

\* A variant of create_repository_file that writes over a file that is there
\* (create or update): C14 fails under it.
create_repository_file_upserting(repo, h, file_path, commit_message, content, branch, fault) ==
  IF ~IsTruthy(repo) THEN AdapterRet(PyBool(FALSE), MsgNotInitialized, <<>>, h)
  ELSE IF ~IsTruthy(file_path) THEN AdapterRet(PyBool(FALSE), MsgPathEmpty, <<>>, h)
  ELSE IF ~IsTruthy(commit_message) THEN AdapterRet(PyBool(FALSE), MsgCommitEmpty, <<>>, h)
  ELSE
    LET np == Strip(file_path.s)
        ref == RefToUse(repo, branch)
        cur == HostGetContents(h, np, ref, fault)
        r == IF cur.exc = "none" /\ cur.val.t = "file"
               THEN HostUpdateFile(h, np, EncodeUtf8(content.s), cur.val.sha, ref, fault)
               ELSE HostCreateFile(h, np, EncodeUtf8(content.s), ref, fault)
        calls == <<[api |-> "create_file", path |-> np, branch |-> ref]>>
    IN MutationResult("creating", np, r, calls)

create_repository_file(repo, h, file_path, commit_message, content, branch, fault) ==
  IF ~IsTruthy(repo) THEN AdapterRet(PyBool(FALSE), MsgNotInitialized, <<>>, h)
  ELSE IF ~IsTruthy(file_path) THEN AdapterRet(PyBool(FALSE), MsgPathEmpty, <<>>, h)
  ELSE IF ~IsTruthy(commit_message) THEN AdapterRet(PyBool(FALSE), MsgCommitEmpty, <<>>, h)
  ELSE
    LET np == Strip(file_path.s)
        ref == RefToUse(repo, branch)
        r == HostCreateFile(h, np, EncodeUtf8(content.s), ref, fault)
        calls == <<[api |-> "create_file", path |-> np, branch |-> ref]>>
    IN MutationResult("creating", np, r, calls)

\* A variant of update_repository_file that, as agent.py's wrapper does, looks
\* the file's current sha up itself and sends that one, not the caller's. A
\* stale token is not refused under it (C1 fails under it).
update_repository_file_refetching(repo, h, file_path, commit_message, new_content, sha, branch, fault) ==
  IF ~IsTruthy(repo) THEN AdapterRet(PyBool(FALSE), MsgNotInitialized, <<>>, h)
  ELSE IF ~IsTruthy(file_path) THEN AdapterRet(PyBool(FALSE), MsgPathEmpty, <<>>, h)
  ELSE IF ~IsTruthy(commit_message) THEN AdapterRet(PyBool(FALSE), MsgCommitEmpty, <<>>, h)
  ELSE IF ~IsTruthy(sha) THEN AdapterRet(PyBool(FALSE), MsgShaRequired("update"), <<>>, h)
  ELSE
    LET np == Strip(file_path.s)
        ref == RefToUse(repo, branch)
        f == HostGetContents(h, np, ref, fault)
        current == IF f.exc = "none" /\ f.val.t = "file" THEN f.val.sha ELSE sha
        r == HostUpdateFile(h, np, EncodeUtf8(new_content.s), current, ref, fault)
        calls == <<GetContentsCall(np, ref),
                   [api |-> "update_file", path |-> np, sha |-> current, branch |-> ref]>>
    IN MutationResult("updating", np, r, calls)

update_repository_file(repo, h, file_path, commit_message, new_content, sha, branch, fault) ==
  IF ~IsTruthy(repo) THEN AdapterRet(PyBool(FALSE), MsgNotInitialized, <<>>, h)
  ELSE IF ~IsTruthy(file_path) THEN AdapterRet(PyBool(FALSE), MsgPathEmpty, <<>>, h)
  ELSE IF ~IsTruthy(commit_message) THEN AdapterRet(PyBool(FALSE), MsgCommitEmpty, <<>>, h)
  ELSE IF ~IsTruthy(sha) THEN AdapterRet(PyBool(FALSE), MsgShaRequired("update"), <<>>, h)
  ELSE
    LET np == Strip(file_path.s)
        ref == RefToUse(repo, branch)
        r == HostUpdateFile(h, np, EncodeUtf8(new_content.s), sha, ref, fault)
        calls == <<[api |-> "update_file", path |-> np, sha |-> sha, branch |-> ref]>>
    IN MutationResult("updating", np, r, calls)

\* A variant of delete_repository_file without the check of sha (lines 245-246):
\* the host is asked even when the caller gave no token (C3 fails under it).
delete_repository_file_unchecked(repo, h, file_path, commit_message, sha, branch, fault) ==
  IF ~IsTruthy(repo) THEN AdapterRet(PyBool(FALSE), MsgNotInitialized, <<>>, h)
  ELSE IF ~IsTruthy(file_path) THEN AdapterRet(PyBool(FALSE), MsgPathEmpty, <<>>, h)
  ELSE IF ~IsTruthy(commit_message) THEN AdapterRet(PyBool(FALSE), MsgCommitEmpty, <<>>, h)
  ELSE
    LET np == Strip(file_path.s)
        ref == RefToUse(repo, branch)
        r == HostDeleteFile(h, np, sha, ref, fault)
        calls == <<[api |-> "delete_file", path |-> np, sha |-> sha, branch |-> ref]>>
    IN MutationResult("deleting", np, r, calls)

\* A variant of delete_repository_file that asks the host a second time when
\* the first request failed on a fault (C22 fails under it).
delete_repository_file_retrying(repo, h, file_path, commit_message, sha, branch, fault) ==
  IF ~IsTruthy(repo) THEN AdapterRet(PyBool(FALSE), MsgNotInitialized, <<>>, h)
  ELSE IF ~IsTruthy(file_path) THEN AdapterRet(PyBool(FALSE), MsgPathEmpty, <<>>, h)
  ELSE IF ~IsTruthy(commit_message) THEN AdapterRet(PyBool(FALSE), MsgCommitEmpty, <<>>, h)
  ELSE IF ~IsTruthy(sha) THEN AdapterRet(PyBool(FALSE), MsgShaRequired("deletion"), <<>>, h)
  ELSE
    LET np == Strip(file_path.s)
        ref == RefToUse(repo, branch)
        call == [api |-> "delete_file", path |-> np, sha |-> sha, branch |-> ref]
    IN IF fault = "none"
         THEN MutationResult("deleting", np, HostDeleteFile(h, np, sha, ref, fault), <<call>>)
         ELSE MutationResult("deleting", np, HostDeleteFile(h, np, sha, ref, "none"),
                             <<call, call>>)

delete_repository_file(repo, h, file_path, commit_message, sha, branch, fault) ==
  IF ~IsTruthy(repo) THEN AdapterRet(PyBool(FALSE), MsgNotInitialized, <<>>, h)
  ELSE IF ~IsTruthy(file_path) THEN AdapterRet(PyBool(FALSE), MsgPathEmpty, <<>>, h)
  ELSE IF ~IsTruthy(commit_message) THEN AdapterRet(PyBool(FALSE), MsgCommitEmpty, <<>>, h)
  ELSE IF ~IsTruthy(sha) THEN AdapterRet(PyBool(FALSE), MsgShaRequired("deletion"), <<>>, h)
  ELSE
    LET np == Strip(file_path.s)
        ref == RefToUse(repo, branch)
        r == HostDeleteFile(h, np, sha, ref, fault)
        calls == <<[api |-> "delete_file", path |-> np, sha |-> sha, branch |-> ref]>>
    IN MutationResult("deleting", np, r, calls)

\* ------------------------------------------------------------ config_loader.py

REQUIRED_KEYS == <<"GITHUB_PAT", "GOOGLE_API_KEY", "GITHUB_REPO_URL">>
ConfigKeys == {REQUIRED_KEYS[i] : i \in 1..Len(REQUIRED_KEYS)}

\* dict.get(key): None when the key is absent.
DictGet(d, k) == IF k \in DOMAIN d THEN d[k] ELSE None
\* d[key] = value
DictSet(d, k, v) == [x \in DOMAIN d \cup {k} |-> IF x = k THEN v ELSE d[x]]
EmptyDict == [x \in {} |-> None]

\* A variant of load_app_config that reads the keys in another order, and so
\* names the last absent key, not the first (C16 fails under it).
load_app_config_last_absent(env, file) ==
  IF ~file.exists
    THEN [raised |-> "FileNotFoundError", key |-> "", config |-> EmptyDict, environ |-> env]
  ELSE
    LET loaded == [k \in ConfigKeys |-> IF env[k] = None THEN file.vals[k] ELSE env[k]]
        absent == {i \in 1..Len(REQUIRED_KEYS) : loaded[REQUIRED_KEYS[i]] = None}
    IN IF absent # {}
         THEN [raised |-> "ValueError",
               key |-> REQUIRED_KEYS[CHOOSE i \in absent : \A j \in absent : i >= j],
               config |-> EmptyDict, environ |-> loaded]
         ELSE [raised |-> "none", key |-> "",
               config |-> [k \in ConfigKeys |-> loaded[k]], environ |-> loaded]

\* load_app_config(): load_dotenv copies into os.environ each variable of the
\* .env file that os.environ does not hold yet; then the required keys are read
\* in order, the first absent one raising ValueError.
load_app_config(env, file) ==
  IF ~file.exists
    THEN [raised |-> "FileNotFoundError", key |-> "", config |-> EmptyDict, environ |-> env]
  ELSE
    LET loaded == [k \in ConfigKeys |-> IF env[k] = None THEN file.vals[k] ELSE env[k]]
        absent == {i \in 1..Len(REQUIRED_KEYS) : loaded[REQUIRED_KEYS[i]] = None}
    IN IF absent # {}
         THEN [raised |-> "ValueError",
               key |-> REQUIRED_KEYS[CHOOSE i \in absent : \A j \in absent : i <= j],
               config |-> EmptyDict, environ |-> loaded]
         ELSE [raised |-> "none", key |-> "",
               config |-> [k \in ConfigKeys |-> loaded[k]], environ |-> loaded]

\* ------------------------------------------- github_agent.py (tool functions)

\* The account and the repository the host knows.
ValidPat == Str(<<"pat">>)
HostRepoName == <<"owner", "/", "name">>
RepositoryObject == [py |-> "Repository", full_name |-> HostRepoName,
                     default_branch |-> BranchMain]
GithubClient == [py |-> "Github"]

\* Lines 36-40: the part after the last "github.com/", without any ".git".
RepoNamePart(url) ==
  LET at == {i \in 1..Len(url) : url[i] = "github.com/"}
      tail == IF at = {} THEN url
              ELSE SubSeq(url, (CHOOSE i \in at : \A j \in at : j <= i) + 1, Len(url))
  IN SelectSeq(tail, LAMBDA x : x # ".git")

\* Github.get_user().login: the first request made with the token.
HostGetUser(pat, fault) ==
  IF fault = "revoked" THEN HostErr("BadCredentialsException", 401, None)
  ELSE IF fault # "none" THEN FaultErr(fault, None)
  ELSE IF pat # ValidPat THEN HostErr("BadCredentialsException", 401, None)
  ELSE HostOk(None, None)

\* Github.get_repo(full_name)
HostGetRepo(name, fault) ==
  IF fault # "none" THEN FaultErr(fault, None)
  ELSE IF name # HostRepoName THEN HostErr("UnknownObjectException", 404, None)
  ELSE HostOk(RepositoryObject, None)

\* The module's globals.
Globals(gi, ro, cfg) == [github_instance |-> gi, repository_object |-> ro, app_config |-> cfg]

\* A variant of InitFailed that leaves the client handle set (C27 fails under
\* it).
InitFailedKeepingClient(cfg, env, calls) ==
  [result |-> FALSE,
   g |-> Globals(GithubClient, None,
                 DictSet(cfg, "EFFECTIVE_GITHUB_REPO_URL",
                         Str(<<"NOT_CONFIGURED_ERROR_DURING_INIT">>))),
   environ |-> env, calls |-> calls]

\* The failure exit of initialize_github_services (lines 64-67).
InitFailed(cfg, env, calls) ==
  [result |-> FALSE,
   g |-> Globals(None, None,
                 DictSet(cfg, "EFFECTIVE_GITHUB_REPO_URL",
                         Str(<<"NOT_CONFIGURED_ERROR_DURING_INIT">>))),
   environ |-> env, calls |-> calls]

\* A variant of initialize_github_services without the early return of lines
\* 22-23: every call loads the configuration and asks the host again (C19
\* fails under it).
initialize_github_services_every_time(g, env, file, ii) ==
  LET cfg == load_app_config(env, file)
      github_pat == DictGet(cfg.config, "GITHUB_PAT")
      repo_url_full == DictGet(cfg.config, "GITHUB_REPO_URL")
      user == HostGetUser(github_pat, ii.user)
      repo == HostGetRepo(RepoNamePart(repo_url_full.s), ii.repo)
  IN IF cfg.raised # "none" THEN InitFailed(g.app_config, cfg.environ, <<>>)
     ELSE IF ~IsTruthy(github_pat) \/ ~IsTruthy(repo_url_full)
       THEN [result |-> FALSE,
             g |-> Globals(g.github_instance, g.repository_object,
                           DictSet(cfg.config, "EFFECTIVE_GITHUB_REPO_URL",
                                   Str(<<"NOT_CONFIGURED_MISSING_PAT_OR_URL">>))),
             environ |-> cfg.environ, calls |-> <<>>]
     ELSE IF user.exc # "none"
       THEN InitFailed(cfg.config, cfg.environ, <<[api |-> "get_user"]>>)
     ELSE IF repo.exc # "none"
       THEN InitFailed(cfg.config, cfg.environ, <<[api |-> "get_user"], [api |-> "get_repo"]>>)
     ELSE [result |-> TRUE,
           g |-> Globals(GithubClient, repo.val,
                         DictSet(cfg.config, "EFFECTIVE_GITHUB_REPO_URL",
                                 Str(repo.val.full_name))),
           environ |-> cfg.environ,
           calls |-> <<[api |-> "get_user"], [api |-> "get_repo"]>>]

\* initialize_github_services(); ii gives the faults of its two host requests.
initialize_github_services(g, env, file, ii) ==
  IF IsTruthy(g.github_instance) /\ IsTruthy(g.repository_object)
    THEN [result |-> TRUE, g |-> g, environ |-> env, calls |-> <<>>]
  ELSE
    LET cfg == load_app_config(env, file)
        github_pat == DictGet(cfg.config, "GITHUB_PAT")
        repo_url_full == DictGet(cfg.config, "GITHUB_REPO_URL")
        user == HostGetUser(github_pat, ii.user)
        repo == HostGetRepo(RepoNamePart(repo_url_full.s), ii.repo)
    IN IF cfg.raised # "none" THEN InitFailed(g.app_config, cfg.environ, <<>>)
       ELSE IF ~IsTruthy(github_pat) \/ ~IsTruthy(repo_url_full)
         THEN [result |-> FALSE,
               g |-> Globals(g.github_instance, g.repository_object,
                             DictSet(cfg.config, "EFFECTIVE_GITHUB_REPO_URL",
                                     Str(<<"NOT_CONFIGURED_MISSING_PAT_OR_URL">>))),
               environ |-> cfg.environ, calls |-> <<>>]
       ELSE IF user.exc # "none"
         THEN InitFailed(cfg.config, cfg.environ, <<[api |-> "get_user"]>>)
       ELSE IF repo.exc # "none"
         THEN InitFailed(cfg.config, cfg.environ, <<[api |-> "get_user"], [api |-> "get_repo"]>>)
       ELSE [result |-> TRUE,
             g |-> Globals(GithubClient, repo.val,
                           DictSet(cfg.config, "EFFECTIVE_GITHUB_REPO_URL",
                                   Str(repo.val.full_name))),
             environ |-> cfg.environ,
             calls |-> <<[api |-> "get_user"], [api |-> "get_repo"]>>]

\* What a tool function gives: the dict it returns (or the exception that leaves
\* it), the adapter's (value, error) pair when the adapter was called, the
\* globals, os.environ and the host afterwards, and the host calls made.
ToolOut(raised, ret, inner, init, calls, h) ==
  [raised |-> raised, ret |-> ret, inner |-> inner, g |-> init.g,
   environ |-> init.environ, calls |-> init.calls \o calls, host |-> h]

ToolSuccess(result) == [status |-> "success", result |-> result, error_message |-> None]
ToolError(msg) == [status |-> "error", error_message |-> msg, result |-> None]

MsgToolNotInitialized ==
  [py |-> "msg", tmpl |-> "GitHub repository is not initialized. Please check server logs for configuration issues."]
MsgToolError(doing, path, error) ==
  [py |-> "msg", tmpl |-> "Error", doing |-> doing, path |-> path, error |-> error]
MsgToolFailed(doing, path) ==
  [py |-> "msg", tmpl |-> "Failed (no specific error returned from client, check logs).",
   doing |-> doing, path |-> path]
MsgToolDone(done, path) ==
  [py |-> "msg", tmpl |-> "Successfully", done |-> done, path |-> path]
MsgToolNoItems(path, branch) ==
  [py |-> "msg", tmpl |-> "No items found in path", path |-> path, branch |-> branch]
MsgToolItems(path, items) ==
  [py |-> "msg", tmpl |-> "Files/directories in", path |-> path, items |-> items]

\* `x or default`
Or(x, default) == IF IsTruthy(x) THEN x ELSE default

\* A variant of the entry of the tool functions that tests the handle and
\* never initialises (C20 fails under it).
ToolEnterWithoutInit(g, env, file, ii) ==
  [result |-> IsTruthy(g.repository_object), g |-> g, environ |-> env, calls |-> <<>>]

\* `if not repository_object and not initialize_github_services()`: the
\* initialisation run on entry (none when the handle is set), and whether the
\* tool function may go on.
ToolEnter(g, env, file, ii) ==
  IF IsTruthy(g.repository_object)
    THEN [result |-> TRUE, g |-> g, environ |-> env, calls |-> <<>>]
  ELSE initialize_github_services(g, env, file, ii)

\* A variant of list_files_tool that reports an empty listing as a failure
\* (C11 fails under it).
list_files_tool_empty_is_error(g, env, file, h, path, branch, ii, fault) ==
  LET init == ToolEnter(g, env, file, ii)
      a == list_repository_contents(init.g.repository_object, h, path, branch, fault)
      shown == Or(path, Str(<<"/">>))
  IN IF ~init.result THEN ToolOut("none", ToolError(MsgToolNotInitialized), None, init, <<>>, h)
     ELSE IF a.raised # "none" THEN ToolOut(a.raised, None, None, init, a.calls, a.host)
     ELSE IF IsTruthy(a.error) \/ ~IsTruthy(a.value)
       THEN ToolOut("none", ToolError(MsgToolError("listing files at path", shown, a.error)),
                    a, init, a.calls, a.host)
     ELSE ToolOut("none", ToolSuccess(MsgToolItems(shown, a.value.items)),
                  a, init, a.calls, a.host)

list_files_tool(g, env, file, h, path, branch, ii, fault) ==
  LET init == ToolEnter(g, env, file, ii)
      a == list_repository_contents(init.g.repository_object, h, path, branch, fault)
      shown == Or(path, Str(<<"/">>))
  IN IF ~init.result THEN ToolOut("none", ToolError(MsgToolNotInitialized), None, init, <<>>, h)
     ELSE IF a.raised # "none" THEN ToolOut(a.raised, None, None, init, a.calls, a.host)
     ELSE IF IsTruthy(a.error)
       THEN ToolOut("none", ToolError(MsgToolError("listing files at path", shown, a.error)),
                    a, init, a.calls, a.host)
     ELSE IF ~IsTruthy(a.value)
       THEN ToolOut("none", ToolSuccess(MsgToolNoItems(shown, Or(branch, Str(<<"default">>)))),
                    a, init, a.calls, a.host)
     ELSE ToolOut("none", ToolSuccess(MsgToolItems(shown, a.value.items)),
                  a, init, a.calls, a.host)

\* Line 102 unpacks the adapter's pair into three names: ValueError, whatever
\* the adapter returned.
read_file_tool(g, env, file, h, file_path, branch, ii, fault) ==
  LET init == ToolEnter(g, env, file, ii)
      a == read_repository_file(init.g.repository_object, h, file_path, branch, fault)
  IN IF ~init.result THEN ToolOut("none", ToolError(MsgToolNotInitialized), None, init, <<>>, h)
     ELSE ToolOut("ValueError", None, a, init, a.calls, a.host)

\* The common end of create_file_tool, update_file_tool and delete_file_tool.
MutationToolOut(init, a, doing, done, file_path, h) ==
  IF ~init.result THEN ToolOut("none", ToolError(MsgToolNotInitialized), None, init, <<>>, h)
  ELSE IF IsTruthy(a.error)
    THEN ToolOut("none", ToolError(MsgToolError(doing, file_path, a.error)),
                 a, init, a.calls, a.host)
  ELSE IF IsTruthy(a.value)
    THEN ToolOut("none", ToolSuccess(MsgToolDone(done, file_path)), a, init, a.calls, a.host)
  ELSE ToolOut("none", ToolError(MsgToolFailed(doing, file_path)), a, init, a.calls, a.host)

create_file_tool(g, env, file, h, file_path, commit_message, content, branch, ii, fault) ==
  LET init == ToolEnter(g, env, file, ii)
      a == create_repository_file(init.g.repository_object, h, file_path, commit_message,
                                  content, branch, fault)
  IN MutationToolOut(init, a, "creating file", "created file", file_path, h)

update_file_tool(g, env, file, h, file_path, commit_message, new_content, sha, branch, ii, fault) ==
  LET init == ToolEnter(g, env, file, ii)
      a == update_repository_file(init.g.repository_object, h, file_path, commit_message,
                                  new_content, sha, branch, fault)
  IN MutationToolOut(init, a, "updating file", "updated file", file_path, h)

delete_file_tool(g, env, file, h, file_path, commit_message, sha, branch, ii, fault) ==
  LET init == ToolEnter(g, env, file, ii)
      a == delete_repository_file(init.g.repository_object, h, file_path, commit_message,
                                  sha, branch, fault)
  IN MutationToolOut(init, a, "deleting file", "deleted file", file_path, h)

\* ------------------------------------------------- agent.py (GithubAgent)

\* A GithubAgent as its constructor leaves it (lines 27-35).
NewAgent(cfg) ==
  [github_pat |-> DictGet(cfg, "GITHUB_PAT"), repo_url |-> DictGet(cfg, "GITHUB_REPO_URL"),
   github_client |-> None, repository_object |-> None, llm_model |-> None]

\* str.replace("https://github.com/", ""), on a URL given as its parts.
RECURSIVE RemoveHostPrefix(_)
RemoveHostPrefix(url) ==
  IF Len(url) >= 2 /\ url[1] = "https://" /\ url[2] = "github.com/"
    THEN RemoveHostPrefix(SubSeq(url, 3, Len(url)))
  ELSE IF url = <<>> THEN <<>>
  ELSE <<Head(url)>> \o RemoveHostPrefix(Tail(url))

LlmModel == [py |-> "GenerativeModel"]

\* GithubAgent.initialize_client(); ii gives the faults of its two host requests.
initialize_client(ag, ii) ==
  IF ~IsTruthy(ag.github_pat) \/ ~IsTruthy(ag.repo_url) THEN [result |-> FALSE, agent |-> ag]
  ELSE
    LET user == HostGetUser(ag.github_pat, ii.user)
        repo == HostGetRepo(RemoveHostPrefix(ag.repo_url.s), ii.repo)
        exc == IF user.exc # "none" THEN user.exc ELSE repo.exc
    IN CASE exc = "none" ->
              [result |-> TRUE,
               agent |-> [ag EXCEPT !.github_client = GithubClient,
                                    !.repository_object = repo.val,
                                    !.llm_model = LlmModel]]
         [] exc = "BadCredentialsException" ->
              [result |-> FALSE, agent |-> [ag EXCEPT !.github_client = None]]
         [] OTHER ->
              [result |-> FALSE,
               agent |-> [ag EXCEPT !.github_client = None, !.repository_object = None]]

\* What a tool wrapper gives: the string it returns, whether that string reports
\* success, the host calls made, the host's new state.
WrapperOut(ok, text, calls, h) == [ok |-> ok, text |-> text, calls |-> calls, host |-> h]
MsgWrapper(tmpl, path, error) ==
  [py |-> "msg", tmpl |-> tmpl, path |-> path, error |-> error]
MsgWrapperCannot(tmpl, doing, path) ==
  [py |-> "msg", tmpl |-> tmpl, doing |-> doing, path |-> path]

max_display_length == 1500

read_file_tool_wrapper(ag, h, file_path, branch, fault) ==
  LET a == read_repository_file(ag.repository_object, h, file_path, branch, fault)
  IN IF IsTruthy(a.error)
       THEN WrapperOut(FALSE, MsgWrapper("Error reading file:", None, a.error), a.calls, a.host)
     ELSE IF a.value = None
       THEN WrapperOut(FALSE, MsgWrapper("Error: Could not retrieve content", None, None),
                       a.calls, a.host)
     ELSE IF Len(a.value.s) > max_display_length
       THEN WrapperOut(TRUE, MsgWrapper("Content of (truncated)", file_path,
                                        Str(SubSeq(a.value.s, 1, max_display_length))),
                       a.calls, a.host)
     ELSE WrapperOut(TRUE, MsgWrapper("Content of", file_path, a.value), a.calls, a.host)

create_file_tool_wrapper(ag, h, file_path, content, commit_message, branch, fault) ==
  LET msg == IF ~IsTruthy(commit_message)
               THEN MsgWrapper("Agent LLM: Create new file", file_path, None)
               ELSE commit_message
      a == create_repository_file(ag.repository_object, h, file_path, msg, content, branch,
                                  fault)
  IN IF IsTruthy(a.error)
       THEN WrapperOut(FALSE, MsgWrapper("Error creating file:", None, a.error), a.calls, a.host)
     ELSE WrapperOut(TRUE, MsgWrapper("Successfully created file:", file_path, None),
                     a.calls, a.host)

\* Lines 149-157 and 174-182: the wrapper itself asks the host for the file's
\* current SHA; lookup is its result, or the reason it returns early.
FetchCurrentSha(ag, h, file_path, branch, fault) ==
  IF ag.repository_object = None \/ file_path.py # "str"
    THEN [exc |-> "AttributeError", sha |-> None, calls |-> <<>>]
  ELSE
    LET np == Strip(file_path.s)
        ref == IF IsTruthy(branch) THEN branch.s ELSE ag.repository_object.default_branch
        r == HostGetContents(h, np, ref, fault)
        calls == <<GetContentsCall(np, ref)>>
    IN IF r.exc # "none" THEN [exc |-> r.exc, sha |-> None, calls |-> calls]
       ELSE IF r.val.t = "list" THEN [exc |-> "AttributeError", sha |-> None, calls |-> calls]
       ELSE IF r.val.type = "dir" THEN [exc |-> "is a directory", sha |-> None, calls |-> calls]
       ELSE [exc |-> "none", sha |-> r.val.sha, calls |-> calls]

FetchFailed(doing, file_path, f, h) ==
  CASE f.exc = "is a directory" ->
         WrapperOut(FALSE, MsgWrapperCannot("Error: Cannot. It is a directory.", doing,
                                            file_path), f.calls, h)
    [] f.exc = "UnknownObjectException" ->
         WrapperOut(FALSE, MsgWrapperCannot("Error: File not found. Cannot", doing, file_path),
                    f.calls, h)
    [] OTHER ->
         WrapperOut(FALSE, MsgWrapper("Error fetching file SHA", None, Str(<<f.exc>>)),
                    f.calls, h)

update_file_tool_wrapper(ag, h, file_path, new_content, commit_message, branch, fault1, fault2) ==
  LET f == FetchCurrentSha(ag, h, file_path, branch, fault1)
      msg == IF ~IsTruthy(commit_message)
               THEN MsgWrapper("Agent LLM: Update file", file_path, None)
               ELSE commit_message
      a == update_repository_file(ag.repository_object, h, file_path, msg, new_content,
                                  f.sha, branch, fault2)
  IN IF f.exc # "none" THEN FetchFailed("update", file_path, f, h)
     ELSE IF IsTruthy(a.error)
       THEN WrapperOut(FALSE, MsgWrapper("Error updating file:", None, a.error),
                       f.calls \o a.calls, a.host)
     ELSE WrapperOut(TRUE, MsgWrapper("Successfully updated file:", file_path, None),
                     f.calls \o a.calls, a.host)

delete_file_tool_wrapper(ag, h, file_path, commit_message, branch, fault1, fault2) ==
  LET f == FetchCurrentSha(ag, h, file_path, branch, fault1)
      msg == IF ~IsTruthy(commit_message)
               THEN MsgWrapper("Agent LLM: Delete file", file_path, None)
               ELSE commit_message
      a == delete_repository_file(ag.repository_object, h, file_path, msg, f.sha, branch,
                                  fault2)
  IN IF f.exc # "none" THEN FetchFailed("delete", file_path, f, h)
     ELSE IF IsTruthy(a.error)
       THEN WrapperOut(FALSE, MsgWrapper("Error deleting file:", None, a.error),
                       f.calls \o a.calls, a.host)
     ELSE WrapperOut(TRUE, MsgWrapper("Successfully deleted file:", file_path, None),
                     f.calls \o a.calls, a.host)

\* ------------------------------------------------------------------ the state

VARIABLES
  host,                      \* the repository at the host: <<branch, path>> -> blob
  dotenv,                    \* the .env file at the project root
  environ,                   \* os.environ, the three configuration variables
  github_instance,           \* github_agent.py, line 15
  repository_object,         \* github_agent.py, line 16
  app_config,                \* github_agent.py, line 17
  INITIALIZATION_SUCCESSFUL, \* github_agent.py, line 182
  phase,                     \* "start" before github_agent.py is imported
  agent,                     \* the GithubAgent of agent.py, None while there is none
  seen,                      \* the file the caller of the wrappers last read, as
                             \* it was when read
  last                       \* the last call: its name and how it ended

vars == <<host, dotenv, environ, github_instance, repository_object, app_config,
          INITIALIZATION_SUCCESSFUL, phase, agent, seen, last>>

\* The arguments the calls are made with.
PathArgs == PathStrs \cup {None}
BranchArgs == {None, Str(<<>>), Str(BranchMain), Str(BranchDev)}
\* The branch arguments the calls below are made with: no branch, the default
\* branch by name, a branch the repository does not have.
BranchInputs == {None, Str(BranchMain), Str(BranchDev)}
MessageArgs == {Str(<<>>), Str(<<"msg">>)}
ContentArgs == {Str(t) : t \in Texts}
ShaArgs == {None, Str(<<>>)} \cup {Str(BlobSha(EncodeUtf8(t))) : t \in Texts}
\* Initialisation: both requests answered, the first failing, the second failing.
InitInputs ==
  {[user |-> "none", repo |-> "none"], [user |-> "network", repo |-> "none"],
   [user |-> "none", repo |-> "server_error"]}
NoInitInput == [user |-> "none", repo |-> "none"]
\* The initialisation inputs that matter: none once the handle is set.
InitInputsNow == IF IsTruthy(repository_object) THEN {NoInitInput} ELSE InitInputs

\* The .env files: none, a complete one, one without the LLM key, one whose
\* token the host rejects.
EnvFile(pat, key, url) ==
  [exists |-> TRUE,
   vals |-> [k \in ConfigKeys |->
               CASE k = "GITHUB_PAT" -> pat [] k = "GOOGLE_API_KEY" -> key [] OTHER -> url]]
NoEnvFile == [exists |-> FALSE]
GoodEnvFile == EnvFile(ValidPat, Str(<<"key">>), Str(HostRepoName))
DotenvFiles ==
  {NoEnvFile, GoodEnvFile,
   EnvFile(ValidPat, None, Str(HostRepoName)),
   EnvFile(Str(<<"bad">>), Str(<<"key">>), Str(HostRepoName))}

G == Globals(github_instance, repository_object, app_config)

NoCall == [op |-> "none", raised |-> "none", status |-> "none", error |-> "", code |-> 0,
           ncalls |-> 0, target |-> "none"]

\* What the path and branch of a create name at the host when the call is made:
\* a file, a directory ("list"), nothing ("absent"); "none" for a path that is
\* no string, and for the other operations.
TargetKind(op, h, path, branch) ==
  IF op # "create_file_tool" \/ path.py # "str" THEN "none"
  ELSE LET v == HostGetContents(h, Strip(path.s), RefToUse(RepositoryObject, branch), "none")
       IN IF v.exc = "none" THEN v.val.t ELSE "absent"

\* What is kept of a tool call: how it ended, the template of the adapter's
\* error and the HTTP status in it, the number of host calls, and what a create
\* named at the host.
Summary(op, r, target) ==
  [op |-> op, raised |-> r.raised,
   status |-> IF r.raised = "none" THEN r.ret.status ELSE "none",
   error |-> IF r.inner = None \/ r.inner.error = None THEN "" ELSE r.inner.error.tmpl,
   code |-> IF r.inner # None /\ r.inner.error # None /\ "status" \in DOMAIN r.inner.error
              THEN r.inner.error.status ELSE 0,
   ncalls |-> Len(r.calls),
   target |-> target]

Init ==
  /\ host = [k \in Branches \X HostPaths |-> Absent]
  /\ dotenv \in DotenvFiles
  /\ environ = [k \in ConfigKeys |-> None]
  /\ github_instance = None
  /\ repository_object = None
  /\ app_config = EmptyDict
  /\ INITIALIZATION_SUCCESSFUL = FALSE
  /\ phase = "start"
  /\ agent = None
  /\ seen = None
  /\ last = NoCall

\* Importing github_agent.py runs line 182.
Import ==
  /\ phase = "start"
  /\ \E ii \in InitInputs :
       LET r == initialize_github_services(G, environ, dotenv, ii)
       IN /\ github_instance' = r.g.github_instance
          /\ repository_object' = r.g.repository_object
          /\ app_config' = r.g.app_config
          /\ environ' = r.environ
          /\ INITIALIZATION_SUCCESSFUL' = r.result
  /\ phase' = "imported"
  /\ UNCHANGED <<host, dotenv, agent, seen, last>>

\* A call of a tool function leaves what the function left, also when an
\* exception ends it.
ToolCall(op, r, path, branch) ==
  \E out \in {r} :
    /\ host' = out.host
    /\ github_instance' = out.g.github_instance
    /\ repository_object' = out.g.repository_object
    /\ app_config' = out.g.app_config
    /\ environ' = out.environ
    /\ last' = Summary(op, out, TargetKind(op, host, path, branch))
    /\ UNCHANGED <<dotenv, INITIALIZATION_SUCCESSFUL, phase, agent, seen>>

\* The values an argument is drawn from: all of S while the call still reads
\* the argument, one of them once an earlier check has decided the call (the
\* result is the same for every value).
Read(S, read) == IF read THEN S ELSE {CHOOSE x \in S : TRUE}

\* The tool function gets as far as the adapter's host call.
Entered(ii) == ToolEnter(G, environ, dotenv, ii).result

ListFilesTool ==
  /\ phase = "imported"
  /\ \E ii \in InitInputsNow :
     \E path \in Read(PathArgs, Entered(ii)) :
     \E branch \in Read(BranchInputs, Entered(ii) /\ path # None) :
     \E fault \in Read(Faults, Entered(ii) /\ path # None) :
       ToolCall("list_files_tool",
                list_files_tool(G, environ, dotenv, host, path, branch, ii, fault),
                path, branch)

ReadFileTool ==
  /\ phase = "imported"
  /\ \E ii \in InitInputsNow :
     \E path \in Read(PathArgs, Entered(ii)) :
     \E branch \in Read(BranchInputs, Entered(ii) /\ IsTruthy(path)) :
     \E fault \in Read(Faults, Entered(ii) /\ IsTruthy(path)) :
       ToolCall("read_file_tool",
                read_file_tool(G, environ, dotenv, host, path, branch, ii, fault),
                path, branch)

CreateFileTool ==
  /\ phase = "imported"
  /\ \E ii \in InitInputsNow :
     \E path \in Read(PathArgs, Entered(ii)) :
     \E msg \in Read(MessageArgs, Entered(ii) /\ IsTruthy(path)) :
     \E branch \in Read(BranchInputs, Entered(ii) /\ IsTruthy(path) /\ IsTruthy(msg)) :
     \E fault \in Read(Faults, Entered(ii) /\ IsTruthy(path) /\ IsTruthy(msg)) :
     \E content \in Read(ContentArgs, Entered(ii) /\ IsTruthy(path) /\ IsTruthy(msg)
                                        /\ fault = "none") :
       ToolCall("create_file_tool",
                create_file_tool(G, environ, dotenv, host, path, msg, content, branch, ii, fault),
                path, branch)

UpdateFileTool ==
  /\ phase = "imported"
  /\ \E ii \in InitInputsNow :
     \E path \in Read(PathArgs, Entered(ii)) :
     \E msg \in Read(MessageArgs, Entered(ii) /\ IsTruthy(path)) :
     \E sha \in Read(ShaArgs, Entered(ii) /\ IsTruthy(path) /\ IsTruthy(msg)) :
     \E branch \in Read(BranchInputs, Entered(ii) /\ IsTruthy(path) /\ IsTruthy(msg)
                                      /\ IsTruthy(sha)) :
     \E fault \in Read(Faults, Entered(ii) /\ IsTruthy(path) /\ IsTruthy(msg) /\ IsTruthy(sha)) :
     \E content \in Read(ContentArgs, Entered(ii) /\ IsTruthy(path) /\ IsTruthy(msg)
                                        /\ IsTruthy(sha) /\ fault = "none") :
       ToolCall("update_file_tool",
                update_file_tool(G, environ, dotenv, host, path, msg, content, sha, branch,
                                 ii, fault),
                path, branch)

DeleteFileTool ==
  /\ phase = "imported"
  /\ \E ii \in InitInputsNow :
     \E path \in Read(PathArgs, Entered(ii)) :
     \E msg \in Read(MessageArgs, Entered(ii) /\ IsTruthy(path)) :
     \E sha \in Read(ShaArgs, Entered(ii) /\ IsTruthy(path) /\ IsTruthy(msg)) :
     \E branch \in Read(BranchInputs, Entered(ii) /\ IsTruthy(path) /\ IsTruthy(msg)
                                      /\ IsTruthy(sha)) :
     \E fault \in Read(Faults, Entered(ii) /\ IsTruthy(path) /\ IsTruthy(msg) /\ IsTruthy(sha)) :
       ToolCall("delete_file_tool",
                delete_file_tool(G, environ, dotenv, host, path, msg, sha, branch, ii, fault),
                path, branch)

\* run_tool_tester of main.py begins with a call of
\* initialize_github_services() (line 76); the tool calls of its menu are the
\* actions above.
RunToolTester ==
  /\ phase = "imported"
  /\ \E ii \in InitInputsNow :
       LET r == initialize_github_services(G, environ, dotenv, ii)
       IN /\ github_instance' = r.g.github_instance
          /\ repository_object' = r.g.repository_object
          /\ app_config' = r.g.app_config
          /\ environ' = r.environ
  /\ UNCHANGED <<host, dotenv, INITIALIZATION_SUCCESSFUL, phase, agent, seen, last>>

\* Another actor changes the repository at the host.
OtherActor ==
  /\ \E b \in Branches, p \in HostPaths, t \in Texts :
       LET cur == HostGetContents(host, p, b, "none")
       IN host' \in
            {HostCreateFile(host, p, EncodeUtf8(t), b, "none").host}
              \cup (IF cur.exc = "none" /\ cur.val.t = "file"
                      THEN {HostUpdateFile(host, p, EncodeUtf8(t), cur.val.sha, b, "none").host,
                            HostDeleteFile(host, p, cur.val.sha, b, "none").host}
                      ELSE {})
  /\ host' # host
  /\ UNCHANGED <<dotenv, environ, github_instance, repository_object, app_config,
                 INITIALIZATION_SUCCESSFUL, phase, agent, seen, last>>

Next ==
  \/ Import
  \/ ListFilesTool
  \/ ReadFileTool
  \/ CreateFileTool
  \/ UpdateFileTool
  \/ DeleteFileTool
  \/ RunToolTester
  \/ OtherActor

Spec == Init /\ [][Next]_vars

\* ------------------------------------------------ main.py (run_tool_tester)

\* get_tool_params (lines 41-67): a required parameter is asked for until the
\* stripped input is not empty; a blank optional parameter is passed as None.
CliRequired(S) == {x \in S : x.py = "str" /\ x.s # <<>>}
CliBlank == None
CliOptional(S) == CliRequired(S) \cup {CliBlank}

\* What is typed at the menu prompt, and `.strip().lower()` of it (line 98).
MenuInputs == {"exit", "EXIT", "1", "2", "3", "4", "5", "6", ""}
Lower(choice) == IF choice = "EXIT" THEN "exit" ELSE choice
ToolChoices == {"1", "2", "3", "4", "5"}

\* Lines 76-81: the warning, unless the call returned True and the imported
\* INITIALIZATION_SUCCESSFUL is True.
StartupReport(result, imported_ok) ==
  IF ~result \/ ~imported_ok THEN "warning" ELSE "initialized"

\* A variant of PhaseAfterTool without the `except Exception` of line 119: an
\* exception of the tool function ends the loop (C23 fails under it).
PhaseAfterToolUncaught(raised) == IF raised = "none" THEN "loop" ELSE "crashed"

\* Lines 106-120: the tool function runs inside try / except Exception, so the
\* loop goes on whatever Exception it raises; KeyboardInterrupt is none.
PhaseAfterTool(raised) == IF raised = "KeyboardInterrupt" THEN "interrupted" ELSE "loop"

\* run_tool_tester up to its loop (lines 73-94): the initialisation call and
\* the report of its outcome.
StartTester ==
  /\ phase = "imported"
  /\ \E ii \in InitInputsNow :
       LET r == initialize_github_services(G, environ, dotenv, ii)
       IN /\ github_instance' = r.g.github_instance
          /\ repository_object' = r.g.repository_object
          /\ app_config' = r.g.app_config
          /\ environ' = r.environ
          /\ last' = [NoCall EXCEPT !.op = "run_tool_tester",
                                    !.status = StartupReport(r.result, INITIALIZATION_SUCCESSFUL),
                                    !.ncalls = Len(r.calls)]
  /\ phase' = "loop"
  /\ UNCHANGED <<host, dotenv, INITIALIZATION_SUCCESSFUL, agent, seen>>

\* Lines 100-101: 'exit' leaves the loop.
ChooseExit ==
  /\ phase = "loop"
  /\ \E choice \in MenuInputs : Lower(choice) = "exit"
  /\ phase' = "exited"
  /\ UNCHANGED <<host, dotenv, environ, github_instance, repository_object, app_config,
                 INITIALIZATION_SUCCESSFUL, agent, seen, last>>

\* Lines 121-122: any other input that is no menu number.
ChooseInvalid ==
  /\ phase = "loop"
  /\ \E choice \in MenuInputs : Lower(choice) \notin ToolChoices \cup {"exit"}
  /\ last' = [NoCall EXCEPT !.op = "invalid choice"]
  /\ UNCHANGED <<host, dotenv, environ, github_instance, repository_object, app_config,
                 INITIALIZATION_SUCCESSFUL, phase, agent, seen>>

\* A tool function called from the menu (line 114): what it leaves, and the
\* loop after it.
TesterCall(op, r, path, branch) ==
  /\ host' = r.host
  /\ github_instance' = r.g.github_instance
  /\ repository_object' = r.g.repository_object
  /\ app_config' = r.g.app_config
  /\ environ' = r.environ
  /\ last' = Summary(op, r, TargetKind(op, host, path, branch))
  /\ phase' = PhaseAfterTool(r.raised)
  /\ UNCHANGED <<dotenv, INITIALIZATION_SUCCESSFUL, agent, seen>>

\* Lines 103-120: a menu number, the parameters asked for, the call.
ChooseTool ==
  /\ phase = "loop"
  /\ \E choice \in MenuInputs, ii \in InitInputsNow :
       /\ Lower(choice) \in ToolChoices
       /\ \/ /\ Lower(choice) = "1"
             /\ \E path \in Read(CliOptional(PathStrs), Entered(ii)) :
                \E branch \in Read(BranchInputs, Entered(ii) /\ path # None) :
                \E fault \in Read(Faults, Entered(ii) /\ path # None) :
                  TesterCall("list_files_tool",
                             list_files_tool(G, environ, dotenv, host, path, branch, ii, fault),
                             path, branch)
          \/ /\ Lower(choice) = "2"
             /\ \E path \in Read(CliRequired(PathStrs), Entered(ii)) :
                \E branch \in Read(BranchInputs, Entered(ii)) :
                \E fault \in Read(Faults, Entered(ii)) :
                  TesterCall("read_file_tool",
                             read_file_tool(G, environ, dotenv, host, path, branch, ii, fault),
                             path, branch)
          \/ /\ Lower(choice) = "3"
             /\ \E path \in Read(CliRequired(PathStrs), Entered(ii)) :
                \E msg \in CliRequired(MessageArgs) :
                \E branch \in Read(BranchInputs, Entered(ii)) :
                \E fault \in Read(Faults, Entered(ii)) :
                \E content \in Read(CliRequired(ContentArgs), Entered(ii) /\ fault = "none") :
                  TesterCall("create_file_tool",
                             create_file_tool(G, environ, dotenv, host, path, msg, content,
                                              branch, ii, fault),
                             path, branch)
          \/ /\ Lower(choice) = "4"
             /\ \E path \in Read(CliRequired(PathStrs), Entered(ii)) :
                \E msg \in CliRequired(MessageArgs) :
                \E sha \in Read(CliRequired(ShaArgs), Entered(ii)) :
                \E branch \in Read(BranchInputs, Entered(ii)) :
                \E fault \in Read(Faults, Entered(ii)) :
                \E content \in Read(CliRequired(ContentArgs), Entered(ii) /\ fault = "none") :
                  TesterCall("update_file_tool",
                             update_file_tool(G, environ, dotenv, host, path, msg, content, sha,
                                              branch, ii, fault),
                             path, branch)
          \/ /\ Lower(choice) = "5"
             /\ \E path \in Read(CliRequired(PathStrs), Entered(ii)) :
                \E msg \in CliRequired(MessageArgs) :
                \E sha \in Read(CliRequired(ShaArgs), Entered(ii)) :
                \E branch \in Read(BranchInputs, Entered(ii)) :
                \E fault \in Read(Faults, Entered(ii)) :
                  TesterCall("delete_file_tool",
                             delete_file_tool(G, environ, dotenv, host, path, msg, sha, branch,
                                              ii, fault),
                             path, branch)

\* Ctrl-C at a prompt: KeyboardInterrupt, caught at line 124.
Interrupt ==
  /\ phase = "loop"
  /\ phase' = "interrupted"
  /\ UNCHANGED <<host, dotenv, environ, github_instance, repository_object, app_config,
                 INITIALIZATION_SUCCESSFUL, agent, seen, last>>

\* The input ends at the menu prompt: input() raises EOFError, which line 124
\* does not catch; it leaves run_tool_tester through the finally clause.
EndOfInput ==
  /\ phase = "loop"
  /\ phase' = "ended"
  /\ UNCHANGED <<host, dotenv, environ, github_instance, repository_object, app_config,
                 INITIALIZATION_SUCCESSFUL, agent, seen, last>>

NextTester ==
  \/ Import
  \/ StartTester
  \/ ChooseExit
  \/ ChooseInvalid
  \/ ChooseTool
  \/ Interrupt
  \/ EndOfInput
  \/ OtherActor

SpecTester == Init /\ [][NextTester]_vars

\* ----------------------------------------------- the GithubAgent of agent.py

\* The configurations a GithubAgent is constructed with: the complete one, and
\* one whose token the host rejects.
AgentConfigs ==
  {[k \in ConfigKeys |-> GoodEnvFile.vals[k]],
   [k \in ConfigKeys |-> IF k = "GITHUB_PAT" THEN Str(<<"bad">>) ELSE GoodEnvFile.vals[k]]}

InitAgent ==
  /\ host = [k \in Branches \X HostPaths |-> Absent]
  /\ dotenv = GoodEnvFile
  /\ environ = [k \in ConfigKeys |-> None]
  /\ github_instance = None
  /\ repository_object = None
  /\ app_config = EmptyDict
  /\ INITIALIZATION_SUCCESSFUL = FALSE
  /\ phase = "start"
  /\ agent \in {NewAgent(c) : c \in AgentConfigs}
  /\ seen = None
  /\ last = NoCall

AgentUnchanged ==
  UNCHANGED <<dotenv, environ, github_instance, repository_object, app_config,
              INITIALIZATION_SUCCESSFUL, phase>>

\* Initialisation of the GithubAgent: as InitInputs, and the host rejecting a
\* token it accepted before (revoked or expired).
AgentInitInputs == InitInputs \cup {[user |-> "revoked", repo |-> "none"]}

InitializeClient ==
  /\ \E ii \in AgentInitInputs :
       LET r == initialize_client(agent, ii)
       IN /\ agent' = r.agent
          /\ last' = [op |-> "initialize_client", ok |-> r.result, stale |-> FALSE]
  /\ UNCHANGED <<host, seen>>
  /\ AgentUnchanged

\* process_request up to the LLM call (lines 221-228): initialize_client when
\* there is no LLM model yet. The tool calls the LLM then makes are the
\* wrapper actions below.
ProcessRequest ==
  /\ \E ii \in AgentInitInputs :
       LET r == IF agent.llm_model = None THEN initialize_client(agent, ii)
                ELSE [result |-> TRUE, agent |-> agent]
       IN /\ agent' = r.agent
          /\ last' = [op |-> "process_request", ok |-> r.result, stale |-> FALSE]
  /\ UNCHANGED <<host, seen>>
  /\ AgentUnchanged

\* The file a wrapper's arguments name, as the host knows it.
Target(path, branch) ==
  [path |-> IF path.py = "str" THEN Strip(path.s) ELSE <<>>,
   ref |-> IF IsTruthy(branch) THEN branch.s ELSE BranchMain]

\* The caller read this file, and it is no longer what the caller read: another
\* actor has changed it since.
Stale(path, branch) ==
  /\ seen # None
  /\ seen.path = Target(path, branch).path
  /\ seen.ref = Target(path, branch).ref
  /\ host[<<seen.ref, seen.path>>] # seen.file

\* The LLM calls a tool wrapper; the wrappers exist once _initialize_llm_and_tools
\* has run.
WrapperCall(op, r, stale) ==
  /\ host' = r.host
  /\ last' = [op |-> op, ok |-> r.ok, stale |-> stale]
  /\ UNCHANGED agent
  /\ AgentUnchanged

WrapperRead ==
  /\ agent.llm_model # None
  /\ \E path \in PathArgs, branch \in BranchArgs, fault \in Faults :
       LET r == read_file_tool_wrapper(agent, host, path, branch, fault)
       IN /\ WrapperCall("read_file_tool_wrapper", r, FALSE)
          /\ seen' = IF r.ok
                       THEN [path |-> Target(path, branch).path,
                             ref |-> Target(path, branch).ref,
                             file |-> host[<<Target(path, branch).ref,
                                             Target(path, branch).path>>]]
                       ELSE seen

WrapperCreate ==
  /\ agent.llm_model # None
  /\ \E path \in PathArgs, content \in ContentArgs, msg \in MessageArgs \cup {None},
        branch \in BranchArgs, fault \in Faults :
       /\ WrapperCall("create_file_tool_wrapper",
                      create_file_tool_wrapper(agent, host, path, content, msg, branch, fault),
                      FALSE)
       /\ UNCHANGED seen

WrapperUpdate ==
  /\ agent.llm_model # None
  /\ \E path \in PathArgs, content \in ContentArgs, msg \in MessageArgs \cup {None},
        branch \in BranchArgs, fault1 \in Faults :
     \E fault2 \in Read(Faults, fault1 = "none") :
       LET r == update_file_tool_wrapper(agent, host, path, content, msg, branch, fault1, fault2)
       IN /\ WrapperCall("update_file_tool_wrapper", r, Stale(path, branch))
          /\ seen' = IF r.ok THEN None ELSE seen

WrapperDelete ==
  /\ agent.llm_model # None
  /\ \E path \in PathArgs, msg \in MessageArgs \cup {None}, branch \in BranchArgs,
        fault1 \in Faults :
     \E fault2 \in Read(Faults, fault1 = "none") :
       LET r == delete_file_tool_wrapper(agent, host, path, msg, branch, fault1, fault2)
       IN /\ WrapperCall("delete_file_tool_wrapper", r, Stale(path, branch))
          /\ seen' = IF r.ok THEN None ELSE seen

NextAgent ==
  \/ InitializeClient
  \/ ProcessRequest
  \/ WrapperRead
  \/ WrapperCreate
  \/ WrapperUpdate
  \/ WrapperDelete
  \/ OtherActor

SpecAgent == InitAgent /\ [][NextAgent]_vars

\* ------------------------------------------------------------------ the claims

\* Arguments with which an operation gets as far as its host call.
FilePaths == {p \in PathStrs : Strip(p.s) # <<>>}
Tokens == {sha \in ShaArgs : IsTruthy(sha)}
SomeMessage == Str(<<"msg">>)
\* The paths without separators around them, and no path.
PlainPaths == {Str(c) : c \in Cores} \cup {None}

\* The file that path and branch name at the host, as a read sees it.
HostView(h, path, branch) ==
  HostGetContents(h, Strip(path.s), RefToUse(RepositoryObject, branch), "none")
IsFileAt(h, path, branch) ==
  HostView(h, path, branch).exc = "none" /\ HostView(h, path, branch).val.t = "file"

\* The module's handles are set: a tool function goes straight to the adapter.
Initialised == IsTruthy(repository_object)

\* The adapter reported the host's refusal with this HTTP status.
RefusedWith(a, status, h) ==
  /\ a.raised = "none"
  /\ a.value = PyBool(FALSE)
  /\ a.error # None
  /\ a.error.tmpl = "A GitHub API error occurred while"
  /\ a.error.status = status
  /\ a.host = h

\* C1 (as claimed): an actor reads a file and so learns its version token;
\* another actor then updates the file; an update by the first actor with the
\* token of its read is refused with 409 Conflict and the file keeps the other
\* actor's content. The token is the blob SHA, which names the content: it is
\* still current when the other actor's update wrote the content the file had.
C1_AnyUpdateBetweenConflicts ==
  \A path \in PathStrs, branch \in BranchArgs, theirs \in Texts, mine \in ContentArgs :
    IsFileAt(host, path, branch) =>
      LET np == Strip(path.s)
          ref == RefToUse(RepositoryObject, branch)
          token == HostView(host, path, branch).val.sha
          other == HostUpdateFile(host, np, EncodeUtf8(theirs), token, ref, "none")
          a == update_repository_file(RepositoryObject, other.host, path, Str(<<"msg">>), mine,
                                      token, branch, "none")
      IN other.exc = "none" =>
           /\ RefusedWith(a, 409, other.host)
           /\ other.host[<<ref, np>>] = File(EncodeUtf8(theirs))

\* C1 (amended): an actor reads a file and so learns its version token; another
\* actor then updates the file to other content; an update by the first actor
\* with the token of its read is refused by the host with 409 Conflict, at the
\* adapter and at update_file_tool, and the file keeps the other actor's content.
C1_StaleTokenConflicts ==
  \A path \in PathStrs, branch \in BranchArgs, theirs \in Texts, mine \in ContentArgs :
    IsFileAt(host, path, branch) =>
      LET np == Strip(path.s)
          ref == RefToUse(RepositoryObject, branch)
          token == HostView(host, path, branch).val.sha
          h1 == HostUpdateFile(host, np, EncodeUtf8(theirs), token, ref, "none").host
          a == update_repository_file(RepositoryObject, h1, path, Str(<<"msg">>), mine, token,
                                      branch, "none")
          t == update_file_tool(G, environ, dotenv, h1, path, Str(<<"msg">>), mine, token,
                                branch, NoInitInput, "none")
      IN h1 # host =>
           /\ RefusedWith(a, 409, h1)
           /\ h1[<<ref, np>>] = File(EncodeUtf8(theirs))
           /\ Initialised =>
                /\ t.raised = "none"
                /\ t.ret.status = "error"
                /\ t.inner.error = a.error
                /\ t.host = h1

\* C1's case: update_file_tool was called with a token that is not the file's
\* current one, and the host answered 409.
C1_Witness ==
  /\ last.op = "update_file_tool"
  /\ last.status = "error"
  /\ last.code = 409
  /\ \E path \in PathStrs, branch \in BranchArgs : IsFileAt(host, path, branch)

\* C2 (as claimed): when another actor has changed the file since the caller
\* read it, an update or delete through the LLM tool wrappers does not succeed.
C2_WrappersNeverOverwriteStale ==
  (last.op \in {"update_file_tool_wrapper", "delete_file_tool_wrapper"} /\ last.ok)
    => ~last.stale

\* The errors the adapter returns before it contacts the host.
LocalErrors == {MsgNotInitialized, MsgPathEmpty, MsgCommitEmpty,
                MsgShaRequired("update"), MsgShaRequired("deletion")}
NoToken == {None, Str(<<>>)}
RefusedLocally(a, h) ==
  /\ a.raised = "none"
  /\ a.value = PyBool(FALSE)
  /\ a.error \in LocalErrors
  /\ a.calls = <<>>
  /\ a.host = h

\* C3 (as claimed): update and delete without a version token return a
\* validation error and make no host call, also through update_file_tool and
\* delete_file_tool while the repository handle is not initialised.
C3_NoTokenNoHostCallAnyState ==
  phase = "imported" =>
    \A sha \in NoToken, path \in PathStrs, ii \in InitInputs :
      LET u == update_file_tool(G, environ, dotenv, host, path, Str(<<"msg">>), Str(<<>>), sha,
                                None, ii, "none")
          d == delete_file_tool(G, environ, dotenv, host, path, Str(<<"msg">>), sha, None, ii,
                                "none")
      IN /\ u.raised = "none" /\ u.ret.status = "error" /\ u.calls = <<>>
         /\ d.raised = "none" /\ d.ret.status = "error" /\ d.calls = <<>>

\* C3 (amended): update and delete without a version token return one of the
\* adapter's local errors and make no host call, whatever the other arguments
\* and the host's condition: at the adapter always, and through update_file_tool
\* and delete_file_tool whenever the repository handle is initialised.
C3_NoTokenNoHostCall ==
  \A sha \in NoToken, path \in PathArgs :
  \A call \in {[msg |-> m, branch |-> b, fault |-> "none"] :
                 m \in MessageArgs, b \in BranchArgs}
              \cup {[msg |-> SomeMessage, branch |-> None, fault |-> f] : f \in Faults} :
    LET msg == call.msg
        branch == call.branch
        fault == call.fault
    IN /\ \A repo \in {None, RepositoryObject} :
            /\ RefusedLocally(update_repository_file(repo, host, path, msg, Str(<<>>), sha,
                                                     branch, fault), host)
            /\ RefusedLocally(delete_repository_file(repo, host, path, msg, sha, branch,
                                                     fault), host)
       /\ Initialised =>
            LET u == update_file_tool(G, environ, dotenv, host, path, msg, Str(<<>>), sha,
                                      branch, NoInitInput, fault)
                d == delete_file_tool(G, environ, dotenv, host, path, msg, sha, branch,
                                      NoInitInput, fault)
            IN /\ u.raised = "none" /\ u.ret.status = "error" /\ u.calls = <<>>
               /\ u.host = host
               /\ d.raised = "none" /\ d.ret.status = "error" /\ d.calls = <<>>
               /\ d.host = host

\* C3's case: update_file_tool, the handle set, returned the adapter's
\* missing-token error without a host call.
C3_Witness ==
  /\ Initialised
  /\ last.op = "update_file_tool"
  /\ last.status = "error"
  /\ last.error = "File SHA (blob SHA) is required"
  /\ last.ncalls = 0

\* C4 (as claimed): read_file_tool on an existing file returns status success
\* with a result carrying file_path, the file's current sha and its content.
C4_ReadToolReturnsContentAndSha ==
  Initialised =>
    \A path \in PathStrs, branch \in BranchArgs :
      IsFileAt(host, path, branch) =>
        LET r == read_file_tool(G, environ, dotenv, host, path, branch, NoInitInput, "none")
        IN /\ r.raised = "none"
           /\ r.ret.status = "success"
           /\ r.ret.result.file_path = path
           /\ r.ret.result.sha = HostView(host, path, branch).val.sha
           /\ r.ret.result.content.s = DecodeUtf8(HostView(host, path, branch).val.data).text

\* C5 (as claimed): on a fresh path, through the tool functions: create with c1
\* succeeds; read gives c1 and a token; update with that token and c2 succeeds;
\* read gives c2 and another token; delete with that token succeeds; read gives
\* a not-found error.
C5_Lifecycle ==
  Initialised =>
    \A path \in PathStrs, c1 \in ContentArgs, c2 \in ContentArgs :
      LET msg == Str(<<"msg">>)
          cr == create_file_tool(G, environ, dotenv, host, path, msg, c1, None, NoInitInput,
                                 "none")
          r1 == read_file_tool(G, environ, dotenv, cr.host, path, None, NoInitInput, "none")
      IN (c1 # c2 /\ cr.raised = "none" /\ cr.ret.status = "success") =>
           /\ r1.raised = "none"
           /\ r1.ret.status = "success"
           /\ r1.ret.result.content = c1
           /\ LET up == update_file_tool(G, environ, dotenv, cr.host, path, msg, c2,
                                         r1.ret.result.sha, None, NoInitInput, "none")
                  r2 == read_file_tool(G, environ, dotenv, up.host, path, None, NoInitInput,
                                       "none")
              IN /\ up.raised = "none" /\ up.ret.status = "success"
                 /\ r2.raised = "none" /\ r2.ret.status = "success"
                 /\ r2.ret.result.content = c2
                 /\ r2.ret.result.sha # r1.ret.result.sha
                 /\ LET de == delete_file_tool(G, environ, dotenv, up.host, path, msg,
                                               r2.ret.result.sha, None, NoInitInput, "none")
                        r3 == read_file_tool(G, environ, dotenv, de.host, path, None,
                                             NoInitInput, "none")
                    IN /\ de.raised = "none" /\ de.ret.status = "success"
                       /\ r3.raised = "none" /\ r3.ret.status = "error"
                       /\ r3.inner.error.tmpl = "not found in repository on branch"

\* C6: when create_repository_file succeeds, a read of the same path and branch
\* (the host answering) returns exactly the content given, the empty content
\* and content outside ASCII included, and no error.
C6_CreateThenReadGivesContent ==
  \A path \in PathArgs, content \in ContentArgs, msg \in MessageArgs, branch \in BranchArgs :
    LET c == create_repository_file(RepositoryObject, host, path, msg, content, branch, "none")
        r == read_repository_file(RepositoryObject, c.host, path, branch, "none")
    IN (c.raised = "none" /\ c.value = PyBool(TRUE)) =>
         /\ c.error = None
         /\ r.raised = "none"
         /\ r.error = None
         /\ r.value = content
         /\ r.host = c.host

\* C6's case: a create has just succeeded, and a file whose content is not
\* ASCII is there to be read back.
C6_Witness ==
  /\ last.op = "create_file_tool"
  /\ last.status = "success"
  /\ \E path \in PathStrs :
       /\ IsFileAt(host, path, None)
       /\ HostView(host, path, None).val.data = EncodeUtf8(<<233>>)
       /\ read_repository_file(RepositoryObject, host, path, None, "none").value = Str(<<233>>)

\* C7 (as claimed): a read of a path that does not exist returns the not-found
\* error and raises nothing, at the adapter and at read_file_tool.
C7_ReadOfAbsentIsNotFound ==
  \A path \in PathStrs, branch \in BranchArgs :
    (Strip(path.s) # <<>> /\ HostView(host, path, branch).exc = "UnknownObjectException") =>
      LET a == read_repository_file(RepositoryObject, host, path, branch, "none")
          t == read_file_tool(G, environ, dotenv, host, path, branch, NoInitInput, "none")
          ref == RefToUse(RepositoryObject, branch)
      IN /\ a.raised = "none"
         /\ a.value = None
         /\ a.error = MsgNotFound("File", Strip(path.s), ref)
         /\ a.host = host
         /\ Initialised =>
              /\ t.raised = "none"
              /\ t.ret.status = "error"
              /\ t.inner.error = a.error

\* C8 (as claimed): no exception leaves any of the adapter's five operations,
\* whatever the arguments (an absent path or branch included) and whatever the
\* host's condition.
C8_AdapterNeverRaises ==
  \A repo \in {None, RepositoryObject}, path \in PathArgs, branch \in BranchArgs,
     fault \in Faults :
    /\ list_repository_contents(repo, host, path, branch, fault).raised = "none"
    /\ read_repository_file(repo, host, path, branch, fault).raised = "none"
    /\ \A msg \in MessageArgs, sha \in ShaArgs :
         /\ delete_repository_file(repo, host, path, msg, sha, branch, fault).raised = "none"
         /\ \A content \in ContentArgs :
              /\ create_repository_file(repo, host, path, msg, content, branch,
                                        fault).raised = "none"
              /\ update_repository_file(repo, host, path, msg, content, sha, branch,
                                        fault).raised = "none"

\* The shape C9 claims of what a tool function returns.
ToolShape(r) ==
  /\ r.raised = "none"
  /\ DOMAIN r.ret = {"status", "result", "error_message"}
  /\ r.ret.status \in {"success", "error"}
  /\ r.ret.status = "success" => (r.ret.result # None /\ r.ret.error_message = None)
  /\ r.ret.status = "error" =>
       (r.ret.result = None /\ r.ret.error_message # None /\ r.ret.error_message # Str(<<>>))

\* C9 (as claimed): every tool function returns a dictionary with exactly the
\* keys status, result and error_message; on success result is set and
\* error_message is None, on error result is None and error_message is set.
C9_ToolsReturnTheResultShape ==
  phase = "imported" =>
  \A path \in PathArgs, branch \in BranchArgs, ii \in InitInputsNow, fault \in Faults :
    /\ ToolShape(list_files_tool(G, environ, dotenv, host, path, branch, ii, fault))
    /\ ToolShape(read_file_tool(G, environ, dotenv, host, path, branch, ii, fault))
    /\ \A msg \in MessageArgs, sha \in ShaArgs :
         /\ ToolShape(delete_file_tool(G, environ, dotenv, host, path, msg, sha, branch, ii,
                                       fault))
         /\ \A content \in ContentArgs :
              /\ ToolShape(create_file_tool(G, environ, dotenv, host, path, msg, content,
                                            branch, ii, fault))
              /\ ToolShape(update_file_tool(G, environ, dotenv, host, path, msg, content, sha,
                                            branch, ii, fault))

\* '/' + p + '/'
Slashed(p) == Str(<<"/">> \o p.s \o <<"/">>)

\* C10 (as claimed): in each of the five operations, a path p and '/' + p + '/'
\* address the same target: the same host calls, the same outcome.
C10_SeparatorsInsignificant ==
  \A p \in PathStrs, branch \in BranchArgs, fault \in Faults :
    LET R == RepositoryObject
        q == Slashed(p)
        msg == Str(<<"msg">>)
    IN /\ list_repository_contents(R, host, p, branch, fault)
            = list_repository_contents(R, host, q, branch, fault)
       /\ read_repository_file(R, host, p, branch, fault)
            = read_repository_file(R, host, q, branch, fault)
       /\ \A sha \in ShaArgs :
            /\ delete_repository_file(R, host, p, msg, sha, branch, fault)
                 = delete_repository_file(R, host, q, msg, sha, branch, fault)
            /\ \A content \in ContentArgs :
                 /\ create_repository_file(R, host, p, msg, content, branch, fault)
                      = create_repository_file(R, host, q, msg, content, branch, fault)
                 /\ update_repository_file(R, host, p, msg, content, sha, branch, fault)
                      = update_repository_file(R, host, q, msg, content, sha, branch, fault)

\* C11 (as claimed): listing a directory that exists and has no entries
\* succeeds, and the result of list_files_tool is the empty list of names.
C11_ToolResultIsEmptyList ==
  Initialised =>
    \A path \in PathStrs, branch \in BranchArgs :
      LET v == HostView(host, path, branch)
          t == list_files_tool(G, environ, dotenv, host, path, branch, NoInitInput, "none")
      IN (v.exc = "none" /\ v.val.t = "list" /\ v.val.names = <<>>) =>
           /\ t.raised = "none"
           /\ t.ret.status = "success"
           /\ t.ret.result = PyList(<<>>)

\* C11 (amended): listing a directory that exists and has no entries (the root
\* of a repository without files) succeeds: the adapter returns ([], None), and
\* list_files_tool returns status success, no error message and, as result, its
\* no-items text, which names no entry.
C11_EmptyDirectoryListsEmpty ==
  \A path \in PathStrs, branch \in BranchArgs :
    LET v == HostView(host, path, branch)
        a == list_repository_contents(RepositoryObject, host, path, branch, "none")
        t == list_files_tool(G, environ, dotenv, host, path, branch, NoInitInput, "none")
    IN (v.exc = "none" /\ v.val.t = "list" /\ v.val.names = <<>>) =>
         /\ a.raised = "none"
         /\ a.value = PyList(<<>>)
         /\ a.error = None
         /\ a.host = host
         /\ Initialised =>
              /\ t.raised = "none"
              /\ t.ret.status = "success"
              /\ t.ret.error_message = None
              /\ t.ret.result = MsgToolNoItems(Or(path, Str(<<"/">>)),
                                               Or(branch, Str(<<"default">>)))
              /\ t.host = host

\* C11's case: list_files_tool has just succeeded on a repository without files,
\* whose only directory is the empty root.
C11_Witness ==
  /\ last.op = "list_files_tool"
  /\ last.status = "success"
  /\ \A p \in HostPaths : ~IsFile(host, BranchMain, p)
  /\ HostView(host, Str(<<>>), None).val.names = <<>>

\* C12 (as claimed): in each of the five operations a rate-limit response of the
\* host gives the rate-limit error, the outcome of no other host error.
C12_RateLimitClassifiedEverywhere ==
  \A path \in FilePaths, branch \in BranchArgs, content \in ContentArgs, sha \in Tokens :
    LET R == RepositoryObject
    IN /\ list_repository_contents(R, host, path, branch, "rate_limit").error = MsgRateLimit
       /\ read_repository_file(R, host, path, branch, "rate_limit").error = MsgRateLimit
       /\ create_repository_file(R, host, path, SomeMessage, content, branch,
                                 "rate_limit").error = MsgRateLimit
       /\ update_repository_file(R, host, path, SomeMessage, content, sha, branch,
                                 "rate_limit").error = MsgRateLimit
       /\ delete_repository_file(R, host, path, SomeMessage, sha, branch,
                                 "rate_limit").error = MsgRateLimit

\* The path names a directory on the branch.
IsDirAt(h, path, branch) ==
  HostView(h, path, branch).exc = "none" /\ HostView(h, path, branch).val.t = "list"

\* C13 (as claimed): read, update and delete of a path that is a directory
\* return the is-a-directory error and leave the repository unchanged.
C13_DirectoryIsInvalidTarget ==
  \A path \in FilePaths, branch \in BranchArgs, content \in ContentArgs, sha \in Tokens :
    IsDirAt(host, path, branch) =>
      LET R == RepositoryObject
          np == Strip(path.s)
          r == read_repository_file(R, host, path, branch, "none")
          u == update_repository_file(R, host, path, SomeMessage, content, sha, branch, "none")
          d == delete_repository_file(R, host, path, SomeMessage, sha, branch, "none")
      IN /\ r.raised = "none" /\ r.error = MsgIsDirectory(np) /\ r.host = host
         /\ u.raised = "none" /\ u.error = MsgIsDirectory(np) /\ u.host = host
         /\ d.raised = "none" /\ d.error = MsgIsDirectory(np) /\ d.host = host

\* C14: create on a path that holds a file is refused by the host as
\* unprocessable (422), which the adapter returns as its host error and
\* create_file_tool as status error; the repository, and so the file's content
\* and version token, are as before.
C14_CreateOverFileRefused ==
  \A path \in PathStrs, branch \in BranchArgs, content \in ContentArgs :
    IsFileAt(host, path, branch) =>
      LET a == create_repository_file(RepositoryObject, host, path, SomeMessage, content,
                                      branch, "none")
          t == create_file_tool(G, environ, dotenv, host, path, SomeMessage, content, branch,
                                NoInitInput, "none")
      IN /\ RefusedWith(a, 422, host)
         /\ HostView(a.host, path, branch) = HostView(host, path, branch)
         /\ Initialised =>
              /\ t.raised = "none"
              /\ t.ret.status = "error"
              /\ t.ret.result = None
              /\ t.inner.error = a.error
              /\ t.host = host

\* C14's case: create_file_tool was called on a path that held a file, and was
\* refused with 422; the file is still there.
C14_Witness ==
  /\ last.op = "create_file_tool"
  /\ last.target = "file"
  /\ last.status = "error"
  /\ last.code = 422
  /\ \E path \in PathStrs : IsFileAt(host, path, None)

\* C15 (as claimed): create, update and delete called through the tool functions
\* without a commit message (absent or empty) get as far as the host: the
\* message is made up for them.
C15_MissingMessageIsGenerated ==
  Initialised =>
    \A path \in FilePaths, msg \in {None, Str(<<>>)}, content \in ContentArgs, sha \in Tokens :
      LET c == create_file_tool(G, environ, dotenv, host, path, msg, content, None,
                                NoInitInput, "none")
          u == update_file_tool(G, environ, dotenv, host, path, msg, content, sha, None,
                                NoInitInput, "none")
          d == delete_file_tool(G, environ, dotenv, host, path, msg, sha, None,
                                NoInitInput, "none")
      IN /\ c.calls # <<>> /\ c.inner.error # MsgCommitEmpty
         /\ u.calls # <<>> /\ u.inner.error # MsgCommitEmpty
         /\ d.calls # <<>> /\ d.inner.error # MsgCommitEmpty

\* The environments and .env files a load is tried with, besides those of the
\* state: every key set ("e" in the environment, "f" in the file) or not.
SomeEnvirons == {environ} \cup [ConfigKeys -> {None, Str(<<"e">>)}]
SomeEnvFiles ==
  {dotenv, NoEnvFile} \cup {[exists |-> TRUE, vals |-> v] : v \in [ConfigKeys -> {None, Str(<<"f">>)}]}

\* The value a key has for the loader: the environment's, else the file's.
Available(env, file, k) ==
  IF env[k] # None THEN env[k] ELSE IF file.exists THEN file.vals[k] ELSE None
\* The first key, in the loader's order, that has no value.
FirstAbsent(env, file) ==
  LET absent == {i \in 1..Len(REQUIRED_KEYS) : Available(env, file, REQUIRED_KEYS[i]) = None}
  IN IF absent = {} THEN "" ELSE REQUIRED_KEYS[CHOOSE i \in absent : \A j \in absent : i <= j]

C17_LoadOnlyReads ==
  load_app_config(environ, dotenv).environ = environ

\* C18 (as claimed): the mapping a successful load returned, which
\* initialize_github_services keeps in app_config, holds the three loaded keys
\* and nothing else, whatever has run since.
C18_LoadedMappingUnchanged ==
  (\E k \in ConfigKeys : k \in DOMAIN app_config) =>
    /\ DOMAIN app_config = ConfigKeys
    /\ \A k \in ConfigKeys : app_config[k] = Available(environ, dotenv, k)

\* Both handles are set: initialize_github_services has succeeded.
BothHandles == IsTruthy(github_instance) /\ IsTruthy(repository_object)

\* C19: once initialize_github_services has succeeded, no step (a tool call, a
\* further initialize_github_services call, a change at the host) changes the
\* client or the repository handle, and a further initialize_github_services
\* call returns True, leaves the globals and the environment as they are (no
\* load of the configuration) and makes no host call, whatever the host would
\* answer.
C19_HandlesReadOnly ==
  [][BothHandles =>
       /\ github_instance' = github_instance
       /\ repository_object' = repository_object
       /\ \A ii \in InitInputs, file \in DotenvFiles :
            initialize_github_services(G, environ, file, ii)
              = [result |-> TRUE, g |-> G, environ |-> environ, calls |-> <<>>]]_vars

\* C19's case: the import initialised the handles, and a tool call has been
\* made since that made the operation's host call and no other.
C19_Witness ==
  /\ INITIALIZATION_SUCCESSFUL
  /\ BothHandles
  /\ last.op # "none"
  /\ last.ncalls = 1

\* The initialisation of a tool call r on entry, with init what
\* initialize_github_services does in this state and a what the adapter
\* operation does on the handle the call then has: when the handle is not set,
\* the call leaves the globals and the environment as the initialisation leaves
\* them and starts with its host calls; when that succeeded, the adapter's host
\* calls follow and the host is as the adapter leaves it; when it failed, the
\* call returns status "error" and there is no adapter call and no change at
\* the host. When the handle is set the call makes the adapter's host calls
\* only, and leaves the globals and the environment alone.
LazilyInitialised(r, init, a) ==
  IF ~Initialised
    THEN /\ r.g = init.g
         /\ r.environ = init.environ
         /\ IF init.result
              THEN /\ r.calls = init.calls \o a.calls
                   /\ r.host = a.host
                   /\ r.raised # "none" \/ r.inner = a
              ELSE /\ r.raised = "none"
                   /\ r.ret.status = "error"
                   /\ r.inner = None
                   /\ r.calls = init.calls
                   /\ r.host = host
    ELSE /\ r.g = G
         /\ r.environ = environ
         /\ r.calls = a.calls
         /\ r.host = a.host
         /\ \A i \in 1..Len(r.calls) : r.calls[i].api \notin {"get_user", "get_repo"}

\* C20: a tool function called while the repository handle is not set first
\* runs initialize_github_services; when that succeeds the adapter operation is
\* carried out in the same call, when it fails the call returns status "error"
\* and the adapter operation is not invoked. A tool function called while the
\* handle is set does not run the initialisation.
C20_ToolsInitialiseLazily ==
  \A path \in PlainPaths, sha \in ShaArgs, ii \in InitInputs :
    LET init == initialize_github_services(G, environ, dotenv, ii)
        repo == init.g.repository_object
        text == Str(<<>>)
    IN /\ LazilyInitialised(
            list_files_tool(G, environ, dotenv, host, path, None, ii, "none"), init,
            list_repository_contents(repo, host, path, None, "none"))
       /\ LazilyInitialised(
            read_file_tool(G, environ, dotenv, host, path, None, ii, "none"), init,
            read_repository_file(repo, host, path, None, "none"))
       /\ LazilyInitialised(
            create_file_tool(G, environ, dotenv, host, path, SomeMessage, text, None, ii, "none"),
            init, create_repository_file(repo, host, path, SomeMessage, text, None, "none"))
       /\ LazilyInitialised(
            update_file_tool(G, environ, dotenv, host, path, SomeMessage, text, sha, None, ii,
                             "none"),
            init, update_repository_file(repo, host, path, SomeMessage, text, sha, None, "none"))
       /\ LazilyInitialised(
            delete_file_tool(G, environ, dotenv, host, path, SomeMessage, sha, None, ii, "none"),
            init, delete_repository_file(repo, host, path, SomeMessage, sha, None, "none"))

\* C20's case: the import did not initialise the handles, and a tool call has
\* run the initialisation (two host calls) and then its operation (the third),
\* with success.
C20_Witness ==
  /\ ~INITIALIZATION_SUCCESSFUL
  /\ Initialised
  /\ last.status = "success"
  /\ last.ncalls = 3

\* The configuration cannot be loaded at start-up: the .env file is missing
\* or a required key has no value.
StartupConfigFails ==
  load_app_config([k \in ConfigKeys |-> None], dotenv).raised # "none"

\* C21 (as claimed): when the configuration file is missing or a required key
\* is absent at start-up, the process does not go past the import: the tester's
\* loop is not entered and no tool function is called.
C21_StartupFailureIsFatal ==
  StartupConfigFails => (phase \in {"start", "imported"} /\ last.op = "none")

\* C23 (as claimed): only 'exit' and a user interrupt end the tester's loop.
C23_OnlyExitOrInterruptEnds ==
  [][(phase = "loop" /\ phase' # "loop") => phase' \in {"exited", "interrupted"}]_vars

\* C23 (amended): the tester's loop ends on the input 'exit' (in any case), on
\* a user interrupt, and when the input ends at the menu prompt; nothing else
\* ends it: after an invalid choice, and after a tool function that returned an
\* error or raised an exception, the loop is still running.
C23_LoopEnds ==
  [][phase = "loop" =>
       /\ phase' # "loop" => (phase' \in {"exited", "interrupted", "ended"} /\ last' = last)
       /\ last' # last => phase' = "loop"]_vars

\* C23's case: a tool function called from the menu has raised an exception,
\* and the loop is still running.
C23_Witness ==
  /\ phase = "loop"
  /\ last.op \in {"list_files_tool", "read_file_tool"}
  /\ last.raised # "none"

\* C25 (as claimed): in the tester, 'List files' with a blank path and a blank
\* branch gives what list_files_tool() gives: the listing of the root on the
\* default branch, with status success.
C25_BlankIsOmitted ==
  (phase = "loop" /\ Initialised) =>
    LET cli == list_files_tool(G, environ, dotenv, host, CliBlank, CliBlank, NoInitInput, "none")
        direct == list_files_tool(G, environ, dotenv, host, Str(<<>>), None, NoInitInput, "none")
    IN /\ cli.raised = "none"
       /\ cli.ret = direct.ret
       /\ cli.ret.status = "success"

\* C30 (as claimed): the tester reports 'GitHub services initialized' exactly
\* when the services are initialised when it starts, and the warning exactly
\* when they are not.
C30_ReportMatchesState ==
  last.op = "run_tool_tester" => (last.status = "initialized" <=> BothHandles)

\* The host's file operations, and how many of them a call made.
FileOps == {"get_contents", "create_file", "update_file", "delete_file"}
FileOpCalls(calls) == Cardinality({i \in 1..Len(calls) : calls[i].api \in FileOps})

\* A tool call r made at most one file operation; and when that one failed on
\* a fault of the host, the adapter returned an error and the host is as it
\* was.
NotRetried(r, fault) ==
  /\ FileOpCalls(r.calls) <= 1
  /\ (fault # "none" /\ FileOpCalls(r.calls) = 1) =>
       /\ r.inner # None
       /\ IsTruthy(r.inner.error)
       /\ ~IsTruthy(r.inner.value)
       /\ r.raised = "none" => r.ret.status = "error"
       /\ r.host = host

\* C22: one call of a tool function makes at most one file operation at the
\* host, also when it runs the initialisation first; when the host answers with
\* a rate limit or another failure, the error is returned and there is no
\* second attempt.
C22_NoRetry ==
  \A path \in PlainPaths, sha \in {None, Str(BlobSha(<<>>))}, fault \in Faults,
     ii \in InitInputsNow :
    LET text == Str(<<>>)
    IN /\ NotRetried(list_files_tool(G, environ, dotenv, host, path, None, ii, fault), fault)
       /\ NotRetried(read_file_tool(G, environ, dotenv, host, path, None, ii, fault), fault)
       /\ NotRetried(create_file_tool(G, environ, dotenv, host, path, SomeMessage, text, None,
                                      ii, fault), fault)
       /\ NotRetried(update_file_tool(G, environ, dotenv, host, path, SomeMessage, text, sha,
                                      None, ii, fault), fault)
       /\ NotRetried(delete_file_tool(G, environ, dotenv, host, path, SomeMessage, sha, None,
                                      ii, fault), fault)

\* C22's case: a tool call has made its one request, which the host answered
\* with a failure (HTTP 403 or 500), and returned status "error".
C22_Witness ==
  /\ last.op \in {"create_file_tool", "update_file_tool", "delete_file_tool"}
  /\ last.status = "error"
  /\ last.code \in {403, 500}
  /\ last.ncalls = 1

\* C24: with the handle set, each of the five operations called with no branch
\* (None or the empty string) gives what the same call gives with the default
\* branch named: the same value and error, the same host calls, the same host
\* afterwards.
C24_NoBranchIsDefaultBranch ==
  \A path \in PlainPaths \ {None}, sha \in ShaArgs, fault \in Faults,
     none \in {None, Str(<<>>)} :
    LET repo == RepositoryObject
        main == Str(repo.default_branch)
        text == Str(<<233>>)
    IN /\ list_repository_contents(repo, host, path, none, fault)
            = list_repository_contents(repo, host, path, main, fault)
       /\ read_repository_file(repo, host, path, none, fault)
            = read_repository_file(repo, host, path, main, fault)
       /\ create_repository_file(repo, host, path, SomeMessage, text, none, fault)
            = create_repository_file(repo, host, path, SomeMessage, text, main, fault)
       /\ update_repository_file(repo, host, path, SomeMessage, text, sha, none, fault)
            = update_repository_file(repo, host, path, SomeMessage, text, sha, main, fault)
       /\ delete_repository_file(repo, host, path, SomeMessage, sha, none, fault)
            = delete_repository_file(repo, host, path, SomeMessage, sha, main, fault)

\* C24's case: a create has succeeded, and a path holds a file on the default
\* branch, which a call that names no branch reads, and none on the other.
C24_Witness ==
  /\ last.op = "create_file_tool"
  /\ last.status = "success"
  /\ \E path \in PathStrs :
       /\ IsFileAt(host, path, None)
       /\ IsFileAt(host, path, Str(BranchMain))
       /\ ~IsFileAt(host, path, Str(BranchDev))

\* C26 (as claimed): a file path that is empty, or empty once its separators
\* are stripped, is refused by read, create, update and delete with 'File path
\* cannot be empty.' and no host call.
C26_EmptyPathNeverSent ==
  \A path \in PathStrs, sha \in CliRequired(ShaArgs) :
    Strip(path.s) = <<>> =>
      \A a \in {read_repository_file(RepositoryObject, host, path, None, "none"),
                create_repository_file(RepositoryObject, host, path, SomeMessage, Str(<<>>),
                                       None, "none"),
                update_repository_file(RepositoryObject, host, path, SomeMessage, Str(<<>>),
                                       sha, None, "none"),
                delete_repository_file(RepositoryObject, host, path, SomeMessage, sha, None,
                                       "none")} :
        /\ a.error = MsgPathEmpty
        /\ a.calls = <<>>

\* C27: whatever the globals, the environment, the .env file and the host's
\* answers, initialize_github_services returns True exactly when it leaves both
\* handles set, and False exactly when it leaves both None; and after a False,
\* the next call tries again: when the configuration loads it asks the host,
\* and it succeeds when the host accepts the token and knows the repository.
C27_HandlesMatchResult ==
  \A ii \in InitInputs, file \in DotenvFiles :
    LET r == initialize_github_services(G, environ, file, ii)
        cfg == load_app_config(r.environ, file)
        again == initialize_github_services(r.g, r.environ, file, NoInitInput)
    IN /\ r.result <=> (IsTruthy(r.g.github_instance) /\ IsTruthy(r.g.repository_object))
       /\ ~r.result <=> (r.g.github_instance = None /\ r.g.repository_object = None)
       /\ (~r.result /\ cfg.raised = "none") =>
            /\ again.calls # <<>>
            /\ again.calls[1].api = "get_user"
            /\ again.result <=>
                 /\ DictGet(cfg.config, "GITHUB_PAT") = ValidPat
                 /\ RepoNamePart(DictGet(cfg.config, "GITHUB_REPO_URL").s) = HostRepoName

\* C27's case: the attempt of the import failed, and a later call of
\* initialize_github_services, no tool call being made, has set both handles.
C27_Witness ==
  /\ phase = "imported"
  /\ ~INITIALIZATION_SUCCESSFUL
  /\ last.op = "none"
  /\ IsTruthy(github_instance)
  /\ IsTruthy(repository_object)

\* C28 (as claimed): in a GithubAgent, when initialize_client has just
\* returned False (called directly, or by process_request) both handles are
\* None; and the repository handle is set only while the client handle is.
C28_AgentHandlesConsistent ==
  /\ (last.op \in {"initialize_client", "process_request"} /\ ~last.ok) =>
       (agent.github_client = None /\ agent.repository_object = None)
  /\ agent.repository_object # None => agent.github_client # None

\* Repository identifiers as owner/name, in parts: a plain name, a name
\* that has ".git" inside ("user.github.io"), the one the environment holds.
RepoIds ==
  {HostRepoName, <<"owner", "/", "user", ".git", "hub.io">>}
    \cup {v.s : v \in {environ["GITHUB_REPO_URL"]} \ {None}}
UrlOf(id) == <<"https://", "github.com/">> \o id

\* C29 (as claimed): an identifier given as owner/name, as the URL
\* https://github.com/owner/name, or as that URL with a trailing ".git",
\* resolves to owner/name, every other character kept, in
\* initialize_github_services and in GithubAgent.initialize_client.
C29_IdentifierFormsResolveAlike ==
  \A id \in RepoIds :
    /\ RepoNamePart(id) = id
    /\ RepoNamePart(UrlOf(id)) = id
    /\ RepoNamePart(UrlOf(id) \o <<".git">>) = id
    /\ RemoveHostPrefix(id) = id
    /\ RemoveHostPrefix(UrlOf(id)) = id
    /\ RemoveHostPrefix(UrlOf(id) \o <<".git">>) = id

====
